---- MODULE Spec2Model ----
(***************************************************************************)
(* Universal Scraper: the job metadata store (storage/metadata_db.py), the *)
(* scrape endpoints and their background tasks (api/routes/scrape.py), the *)
(* WebSocket connection manager (api/websocket.py), the domain crawler     *)
(* (scraper/crawler.py), the fetcher (scraper/fetcher.py), the RAG service *)
(* (rag/rag_service.py), the export endpoint (api/routes/export.py), URL   *)
(* normalization (utils/validators.py) and the chunker (rag/chunker.py).   *)
(*                                                                         *)
(* The specifications share the variables:                                 *)
(*   SpecDb     - arbitrary sequences of MetadataDB calls on job rows;     *)
(*   SpecApi    - requests to the POST /scrape/direct handler;             *)
(*   SpecJob    - the two background tasks, entered as BackgroundTasks     *)
(*                enters them, and the WebSocket registry they broadcast   *)
(*                through;                                                 *)
(*   SpecCrawl  - one Crawler object from construction to crawl()'s return;*)
(*   SpecFetch  - one Fetcher object and the calls running on it;          *)
(*   SpecRag    - one answer_query request;                                *)
(*   SpecExport - requests to POST /export/;                               *)
(*   SpecNorm   - normalize_url applied to a URL and to its own result;    *)
(*   SpecChunk  - one chunk_text call on one Chunker.                      *)
(***************************************************************************)
EXTENDS Integers, Sequences, FiniteSets, TLC

(***************************************************************************)
(* Bounds of the model (not program constants).                            *)
(***************************************************************************)
MaxJobs == 2
MaxCalls == 3
MaxTasks == 1

(***************************************************************************)
(* Python values.  None is NoneStr for strings and NoTime for timestamps;  *)
(* Truthy is Python's truth test on an Optional[str].                      *)
(***************************************************************************)
NoneStr == "<None>"
NoTime == 0
Truthy(s) == s # NoneStr /\ s # ""

(***************************************************************************)
(* storage/models.py                                                       *)
(***************************************************************************)
PENDING == "pending"
RUNNING == "running"
COMPLETED == "completed"
FAILED == "failed"
CANCELLED == "cancelled"
JobStatus == {PENDING, RUNNING, COMPLETED, FAILED, CANCELLED}
TerminalStatus == {COMPLETED, FAILED, CANCELLED}
JobType == {"direct", "smart"}

\* A ScrapeJob row as create_job inserts it (column defaults of the model).
ScrapeJob(job_type, created) ==
    [job_type |-> job_type, status |-> PENDING, created_at |-> created,
     started_at |-> NoTime, completed_at |-> NoTime, error_message |-> NoneStr,
     urls_discovered |-> 0, urls_scraped |-> 0, urls_failed |-> 0, total_chunks |-> 0]

VARIABLES
    jobs,       \* scrape_jobs table: sequence of rows, row id = index
    now,        \* datetime.utcnow(), strictly increasing per call
    calls       \* history: committed update_job_status calls [job, status, at]

dbVars == <<jobs, now, calls>>

(***************************************************************************)
(* storage/metadata_db.py                                                  *)
(***************************************************************************)
create_job(js, job_type, t) == Append(js, ScrapeJob(job_type, t))

_job_started(js, job_id) == js[job_id].started_at # NoTime

\* update_job_status without the _job_started guard
update_job_status_unguarded(js, job_id, status, error_message, t) ==
    LET row == js[job_id]
        r1 == [row EXCEPT !.status = status]
        r2 == IF status = RUNNING
                 THEN [r1 EXCEPT !.started_at = t]
              ELSE IF status \in TerminalStatus
                 THEN [r1 EXCEPT !.completed_at = t]
              ELSE r1
        r3 == IF Truthy(error_message)
                 THEN [r2 EXCEPT !.error_message = error_message]
              ELSE r2
    IN  [js EXCEPT ![job_id] = r3]

update_job_status(js, job_id, status, error_message, t) ==
    LET row == js[job_id]
        r1 == [row EXCEPT !.status = status]
        r2 == IF status = RUNNING /\ ~_job_started(js, job_id)
                 THEN [r1 EXCEPT !.started_at = t]
              ELSE IF status \in TerminalStatus
                 THEN [r1 EXCEPT !.completed_at = t]
              ELSE r1
        r3 == IF Truthy(error_message)
                 THEN [r2 EXCEPT !.error_message = error_message]
              ELSE r2
    IN  [js EXCEPT ![job_id] = r3]

(***************************************************************************)
(* scraper/crawler.py: one Crawler over a small site.                      *)
(* URLs are the normalized strings the parser and the fetcher hand over;   *)
(* urlparse is tabulated on them.                                          *)
(***************************************************************************)
StartUrlArg == "https://a.com/#top"
Root == "https://a.com/"
P1 == "https://a.com/p1"
P2 == "https://a.com/p2"
P3 == "https://a.com/p3"
Pdf == "https://a.com/menu.pdf"
Ext == "https://b.org/"
SiteUrls == {Root, P1, P2, P3, Pdf, Ext}

\* utils/validators.py on the URLs of the site
normalize_url(u) == IF u = StartUrlArg THEN Root ELSE u
get_domain(u) == IF u = Ext THEN "b.org" ELSE "a.com"
is_same_domain(u1, u2) == get_domain(u1) = get_domain(u2)

\* Crawler._is_pdf_url: url.lower().endswith('.pdf')
_is_pdf_url(u) == u = Pdf

\* config.Settings.max_depth and the literal 100 of Crawler.__init__
SettingsMaxDepth == 3
DefaultMaxPages == 100

\* Python's `x or default` on an Optional[int]: None and 0 are both falsy.
NoneInt == -1
PyOr(x, default) == IF x = NoneInt \/ x = 0 THEN default ELSE x

\* Largest max_depth / max_pages argument a caller passes in the model.
MaxArgDepth == 2
MaxArgPages == 2

\* The sites of the model: the links the parser extracts from each HTML page
\* (normalized, no duplicates, in document order).
RootLinkChoices ==
    {<<>>, <<P1>>, <<P1, P2>>, <<P2, P1, Ext>>, <<P1, Pdf>>, <<Ext>>,
     <<P1, P2, Pdf, Ext>>, <<Pdf>>}
P1LinkChoices == {<<>>, <<Root, P2>>, <<P2, P3>>, <<P3>>}
P2LinkChoices == {<<>>, <<P1, P3>>}
SiteChoices ==
    {[u \in {Root, P1, P2, P3} |->
        IF u = Root THEN r ELSE IF u = P1 THEN a ELSE IF u = P2 THEN b ELSE <<>>] :
        r \in RootLinkChoices, a \in P1LinkChoices, b \in P2LinkChoices}

\* (pdf_enabled, scraper_method, the pdf_links a browser fetch detects and the
\* page it detects them on)
CrawlConfigs ==
    {[pdf_enabled |-> FALSE, method |-> "httpx", pdf_links |-> <<>>, pdf_page |-> Root],
     [pdf_enabled |-> TRUE, method |-> "httpx", pdf_links |-> <<>>, pdf_page |-> Root],
     [pdf_enabled |-> TRUE, method |-> "playwright", pdf_links |-> <<Pdf>>,
      pdf_page |-> Root],
     [pdf_enabled |-> TRUE, method |-> "playwright", pdf_links |-> <<Pdf>>,
      pdf_page |-> P1]}

VARIABLES
    arg_max_depth,    \* constructor argument max_depth (NoneInt for None)
    arg_max_pages,    \* constructor argument max_pages (NoneInt for None)
    max_depth,        \* self.max_depth
    max_pages,        \* self.max_pages
    on_page_callback, \* TRUE when a callback was supplied
    pdf_enabled,      \* self.pdf_enabled
    scraper_method,   \* self.scraper_method
    site,             \* links of each HTML page
    pdf_links,        \* response['pdf_links'] of the page pdf_page (browser fetch)
    pdf_page,         \* the page whose browser fetch reports pdf_links
    visited,          \* self.visited
    queue,            \* self.queue: sequence of [url, depth]
    failed,           \* self.failed: sequence of [url, error, depth]
    pages_crawled,    \* local of crawl()
    cpc,              \* position in crawl(): loop, process, callback, done, raised
    cur,              \* (url, depth) being processed
    enqueued,         \* history: every entry appended to the queue, in order
    dequeued,         \* history: every entry popped from the queue, in order
    fetched,          \* history: URLs whose fetch / download was started
    outcome_of,       \* history: processing outcome per URL ("" = none yet)
    cb_outcome        \* history: callback outcome per URL ("" = not called)

crawlVars == <<arg_max_depth, arg_max_pages, max_depth, max_pages,
               on_page_callback, pdf_enabled, scraper_method, site, pdf_links, pdf_page,
               visited, queue, failed, pages_crawled, cpc, cur,
               enqueued, dequeued, fetched, outcome_of, cb_outcome>>

Entry(u, d) == [url |-> u, depth |-> d]
Failure(u, e, d) == [url |-> u, error |-> e, depth |-> d]

\* deque.append (QueueAppendLeft: appendleft in its place)
QueueAppendLeft(q, e) == <<e>> \o q
QueueAppend(q, e) == Append(q, e)

RECURSIVE AppendAll(_, _)
AppendAll(q, es) ==
    IF es = <<>> THEN q ELSE AppendAll(QueueAppend(q, Head(es)), Tail(es))

\* Crawler.__init__
CrawlerInit(start_url, md, mp, cb, cfg, links) ==
    /\ arg_max_depth = md
    /\ arg_max_pages = mp
    /\ max_depth = PyOr(md, SettingsMaxDepth)
    /\ max_pages = PyOr(mp, DefaultMaxPages)
    /\ on_page_callback = cb
    /\ pdf_enabled = cfg.pdf_enabled
    /\ scraper_method = cfg.method
    /\ pdf_links = cfg.pdf_links
    /\ pdf_page = cfg.pdf_page
    /\ site = links
    /\ visited = {}
    /\ queue = <<Entry(normalize_url(start_url), 0)>>
    /\ failed = <<>>
    /\ pages_crawled = 0
    /\ cpc = "loop"
    /\ cur = Entry("", 0)
    /\ enqueued = <<Entry(normalize_url(start_url), 0)>>
    /\ dequeued = <<>>
    /\ fetched = <<>>
    /\ outcome_of = [u \in SiteUrls |-> ""]
    /\ cb_outcome = [u \in SiteUrls |-> ""]

InitCrawlPart ==
    \E md \in {NoneInt} \cup 0..MaxArgDepth, mp \in {NoneInt} \cup 0..MaxArgPages,
       cb \in BOOLEAN, cfg \in CrawlConfigs, links \in SiteChoices :
        CrawlerInit(StartUrlArg, md, mp, cb, cfg, links)

\* crawl(), lines 91-93: `if url in self.visited: continue`
SkipVisitedNever(u, vis) == FALSE
SkipVisited(u, vis) == u \in vis

\* crawl(), line 88: `while self.queue and pages_crawled < self.max_pages`
LoopContinuesInclusive(q, n, mp) == q # <<>> /\ n <= mp
LoopContinues(q, n, mp) == q # <<>> /\ n < mp

\* crawl(), lines 88-100: the loop test, popleft, the two skips, visited.add
CrawlDequeue ==
    /\ cpc = "loop"
    /\ LoopContinues(queue, pages_crawled, max_pages)
    /\ LET e == Head(queue) IN
         /\ queue' = Tail(queue)
         /\ dequeued' = Append(dequeued, e)
         /\ IF SkipVisited(e.url, visited) \/ e.depth > max_depth
              THEN UNCHANGED <<visited, cpc, cur>>
              ELSE /\ visited' = visited \cup {e.url}
                   /\ cpc' = "process"
                   /\ cur' = e
    /\ UNCHANGED <<arg_max_depth, arg_max_pages, max_depth, max_pages,
                   on_page_callback, pdf_enabled, scraper_method, site, pdf_links, pdf_page,
                   failed, pages_crawled, enqueued, fetched, outcome_of, cb_outcome>>

\* _crawl_page, lines 154-168: the entries a fetched page appends to the queue
NewEntries(u, d) ==
    LET follow == IF d < max_depth
                    THEN SelectSeq(site[u],
                           LAMBDA l : is_same_domain(l, Root) /\ l \notin visited)
                    ELSE <<>>
        resp_pdf == IF u = pdf_page /\ scraper_method = "playwright"
                      THEN pdf_links ELSE <<>>
        pdfs == IF resp_pdf # <<>> /\ pdf_enabled
                  THEN SelectSeq(resp_pdf,
                         LAMBDA l : l \notin visited /\ is_same_domain(l, Root))
                  ELSE <<>>
        all == follow \o pdfs
    IN  [i \in 1..Len(all) |-> Entry(all[i], d + 1)]


\* Outcomes of processing one URL.  An HTML page: the fetch returns a page
\* ("ok"), returns nothing ("none"), or fetch / parse raises ("raise").
\* A PDF: processing is disabled ("disabled"), the download fails ("none"),
\* the processor raises inside _process_pdf ("raise"), or text comes out ("ok").
PageOutcomes == {"ok", "none", "raise"}
PdfOutcomes == {"ok", "none", "raise"}

\* crawl(), lines 119-121: the loop-level handler of a processing exception
\* (OnProcessingErrorPropagate: the exception leaves crawl() instead)
OnProcessingErrorPropagate(f, u, d) == [failed |-> f, cpc |-> "raised"]
OnProcessingErrorSilent(f, u, d) == [failed |-> f, cpc |-> "loop"]
OnProcessingError(f, u, d) ==
    [failed |-> Append(f, Failure(u, "exception text", d)), cpc |-> "loop"]

\* crawl(), lines 110-118, after a result came back
AfterResult == IF on_page_callback THEN "callback" ELSE "loop"

\* crawl() lines 102-121 with _crawl_page (lines 132-181)
CrawlPage ==
    /\ cpc = "process"
    /\ ~_is_pdf_url(cur.url)
    /\ fetched' = Append(fetched, cur.url)
    /\ \E o \in PageOutcomes :
         /\ outcome_of' = [outcome_of EXCEPT ![cur.url] = o]
         /\ CASE o = "ok" ->
                   /\ queue' = AppendAll(queue, NewEntries(cur.url, cur.depth))
                   /\ enqueued' = enqueued \o NewEntries(cur.url, cur.depth)
                   /\ pages_crawled' = pages_crawled + 1
                   /\ cpc' = AfterResult
                   /\ UNCHANGED failed
              [] o = "none" ->
                   /\ failed' = Append(failed, Failure(cur.url, "Fetch failed", cur.depth))
                   /\ cpc' = "loop"
                   /\ UNCHANGED <<queue, enqueued, pages_crawled>>
              [] o = "raise" ->
                   /\ failed' = OnProcessingError(failed, cur.url, cur.depth).failed
                   /\ cpc' = OnProcessingError(failed, cur.url, cur.depth).cpc
                   /\ UNCHANGED <<queue, enqueued, pages_crawled>>
    /\ UNCHANGED <<arg_max_depth, arg_max_pages, max_depth, max_pages,
                   on_page_callback, pdf_enabled, scraper_method, site, pdf_links, pdf_page,
                   visited, cur, dequeued, cb_outcome>>

\* crawl() lines 102-121 with _process_pdf (lines 187-258)
ProcessPdf ==
    /\ cpc = "process"
    /\ _is_pdf_url(cur.url)
    /\ IF ~pdf_enabled
         THEN /\ outcome_of' = [outcome_of EXCEPT ![cur.url] = "disabled"]
              /\ cpc' = "loop"
              /\ UNCHANGED <<fetched, failed, pages_crawled>>
         ELSE /\ fetched' = Append(fetched, cur.url)
              /\ \E o \in PdfOutcomes :
                   /\ outcome_of' = [outcome_of EXCEPT ![cur.url] = o]
                   /\ CASE o = "ok" ->
                             /\ pages_crawled' = pages_crawled + 1
                             /\ cpc' = AfterResult
                             /\ UNCHANGED failed
                        [] o = "none" ->
                             /\ failed' = Append(failed,
                                    Failure(cur.url, "Download failed", cur.depth))
                             /\ cpc' = "loop"
                             /\ UNCHANGED pages_crawled
                        [] o = "raise" ->
                             /\ failed' = Append(failed,
                                    Failure(cur.url, "exception text", cur.depth))
                             /\ cpc' = "loop"
                             /\ UNCHANGED pages_crawled
    /\ UNCHANGED <<arg_max_depth, arg_max_pages, max_depth, max_pages,
                   on_page_callback, pdf_enabled, scraper_method, site, pdf_links, pdf_page,
                   visited, queue, cur, enqueued, dequeued, cb_outcome>>

\* crawl() lines 114-118: the callback returns or raises; both are swallowed
CrawlCallback ==
    /\ cpc = "callback"
    /\ \E o \in {"ok", "raise"} : cb_outcome' = [cb_outcome EXCEPT ![cur.url] = o]
    /\ cpc' = "loop"
    /\ UNCHANGED <<arg_max_depth, arg_max_pages, max_depth, max_pages,
                   on_page_callback, pdf_enabled, scraper_method, site, pdf_links, pdf_page,
                   visited, queue, failed, pages_crawled, cur,
                   enqueued, dequeued, fetched, outcome_of>>

\* crawl() lines 123-130: the loop test fails, the fetcher is closed, the
\* statistics are returned
CrawlReturn ==
    /\ cpc = "loop"
    /\ ~LoopContinues(queue, pages_crawled, max_pages)
    /\ cpc' = "done"
    /\ UNCHANGED <<arg_max_depth, arg_max_pages, max_depth, max_pages,
                   on_page_callback, pdf_enabled, scraper_method, site, pdf_links, pdf_page,
                   visited, queue, failed, pages_crawled, cur,
                   enqueued, dequeued, fetched, outcome_of, cb_outcome>>

\* crawl()'s return value
CrawlResult ==
    [pages_crawled |-> pages_crawled, pages_failed |-> Len(failed),
     urls_discovered |-> Cardinality(visited), failed_urls |-> failed]

\* Crawler.get_stats
get_stats ==
    [visited |-> Cardinality(visited), queued |-> Len(queue), failed |-> Len(failed)]

(***************************************************************************)
(* api/schemas.py and the POST /scrape/direct handler (api/routes/scrape.py)*)
(***************************************************************************)
\* Request bodies of the model and urlparse on their url
ReqUrls == {"https://a.com/", "https://", "not a url"}
ReqMethods == {NoneStr, "httpx", "playwright", "selenium"}
MaxRequests == 2

urlparse(u) ==
    IF u = "https://a.com/" THEN [scheme |-> "https", netloc |-> "a.com"]
    ELSE IF u = "https://" THEN [scheme |-> "https", netloc |-> ""]
    ELSE [scheme |-> "", netloc |-> ""]

\* validators.is_valid_url: all([result.scheme, result.netloc])
is_valid_url(u) == urlparse(u).scheme # "" /\ urlparse(u).netloc # ""

\* The fields DirectScrapeRequest declares; any other key of the body is
\* dropped by the schema and reading it from the request object raises
\* AttributeError.
DirectScrapeRequestFields == {"url", "max_depth", "max_pages"}

\* direct_scrape up to the decision: the HTTP status and whether the handler
\* goes on to create_job and add_task.  An uncaught AttributeError is a 500.
direct_scrape(body) ==
    IF ~is_valid_url(body.url)
       THEN [code |-> 400, accepted |-> FALSE]
    ELSE IF "scraper_method" \notin DirectScrapeRequestFields
       THEN [code |-> 500, accepted |-> FALSE]
    ELSE LET m == IF Truthy(body.scraper_method) THEN body.scraper_method ELSE "httpx"
         IN  IF m \notin {"httpx", "playwright"}
                THEN [code |-> 400, accepted |-> FALSE]
                ELSE [code |-> 200, accepted |-> TRUE]

(***************************************************************************)
(* api/websocket.py: ConnectionManager                                     *)
(***************************************************************************)
WS == {"w1", "w2"}
JobIds == 1..MaxJobs

VARIABLES
    responses,           \* history: [url, scraper_method, code, jobs_before, jobs_after, scheduled]
    task,                \* per job id: [pc, exc] of its background task
    active_connections,  \* manager.active_connections: dict job id -> set
    sock,                \* per WebSocket: [state, job]
    iter,                \* per job id: the send_update call in flight
    delivered            \* history: per WebSocket, the messages it received

jobVars == <<responses, task, active_connections, sock, iter, delivered>>

DictDel(d, k) == [x \in DOMAIN d \ {k} |-> d[x]]
DictSet(d, k, v) == [x \in DOMAIN d \cup {k} |-> IF x = k THEN v ELSE d[x]]

\* ConnectionManager.connect after accept()
connect(ac, w, j) ==
    IF j \notin DOMAIN ac THEN DictSet(ac, j, {w}) ELSE DictSet(ac, j, ac[j] \cup {w})

\* ConnectionManager.disconnect
disconnect(ac, w, j) ==
    IF j \in DOMAIN ac
       THEN IF ac[j] \ {w} = {} THEN DictDel(ac, j) ELSE DictSet(ac, j, ac[j] \ {w})
       ELSE ac

RECURSIVE DisconnectAll(_, _, _)
DisconnectAll(ac, ws, j) ==
    IF ws = {} THEN ac
    ELSE LET w == CHOOSE x \in ws : TRUE
         IN  DisconnectAll(disconnect(ac, w, j), ws \ {w}, j)

IdleIter == [phase |-> "idle", to |-> "none", si_used |-> 0, passed |-> {},
             detached |-> FALSE, disconnected |-> {}, initial |-> {},
             at |-> "none", result |-> "none", after |-> {}]

\* self.active_connections[job_id], empty when the key is absent
RegistryEntry(ac, j) == IF j \in DOMAIN ac THEN ac[j] ELSE {}

\* The set object a running `for connection in self.active_connections[job_id]`
\* iterates: the registry's set while the key was never deleted, else the old,
\* emptied set.
IterObj(j) ==
    IF iter[j].detached \/ j \notin DOMAIN active_connections
       THEN {} ELSE active_connections[j]

(***************************************************************************)
(* api/routes/scrape.py: process_direct_scrape and process_smart_scrape    *)
(***************************************************************************)
UpdatePcs == {"update_running", "update_completed", "handler_update"}
BroadcastPcs == {"broadcast_running", "broadcast_placeholder",
                 "broadcast_completed", "handler_broadcast"}
HandlerPcs == {"handler_update", "handler_broadcast"}

NextPc(job_type, pc) ==
    CASE pc = "update_running" -> "broadcast_running"
      [] pc = "broadcast_running" ->
            IF job_type = "direct" THEN "crawl" ELSE "generate_queries"
      [] pc = "crawl" -> "update_completed"
      [] pc = "generate_queries" -> "broadcast_placeholder"
      [] pc = "broadcast_placeholder" -> "update_completed"
      [] pc = "update_completed" -> "broadcast_completed"
      [] pc = "broadcast_completed" -> "returned"
      [] pc = "handler_update" -> "handler_broadcast"
      [] pc = "handler_broadcast" -> "returned"

\* The arguments of the db.update_job_status call at each position
StatusArg(pc) ==
    CASE pc = "update_running" -> RUNNING
      [] pc = "update_completed" -> COMPLETED
      [] pc = "handler_update" -> FAILED
ErrorArg(job_type, pc, exc) ==
    CASE pc = "update_running" -> NoneStr
      [] pc = "update_completed" ->
            IF job_type = "smart" THEN "Smart scraping is a placeholder." ELSE NoneStr
      [] pc = "handler_update" -> exc

\* The message broadcast_progress / broadcast_completion builds at each position
Message(pc) ==
    CASE pc \in {"broadcast_running", "broadcast_placeholder"} ->
            [type |-> "progress", status |-> "running", at |-> pc]
      [] pc = "broadcast_completed" ->
            [type |-> "completion", status |-> "completed", at |-> pc]
      [] pc = "handler_broadcast" ->
            [type |-> "completion", status |-> "failed", at |-> pc]

\* `try: ... except Exception as e:` of the task: an exception inside the try
\* block enters the handler, one raised by the handler leaves the task.
Raise(t, text) ==
    IF t.pc \in HandlerPcs
       THEN [t EXCEPT !.pc = "raised"]
       ELSE [pc |-> "handler_update", exc |-> text]

Advance(j) == [task[j] EXCEPT !.pc = NextPc(jobs[j].job_type, task[j].pc)]

\* Texts of the exceptions the crawl / the search agent raise in the model
StepExcTexts == {"crawl failed", ""}

InitJobPart ==
    /\ responses = <<>>
    /\ task = [j \in JobIds |-> [pc |-> "none", exc |-> NoneStr]]
    /\ active_connections = <<>>
    /\ sock = [w \in WS |-> [state |-> "new", job |-> 0]]
    /\ iter = [j \in JobIds |-> IdleIter]
    /\ delivered = [w \in WS |-> {}]

\* POST /scrape/direct
DirectScrape ==
    /\ Len(responses) < MaxRequests
    /\ \E u \in ReqUrls, m \in ReqMethods :
         LET body == [url |-> u, scraper_method |-> m]
             r == direct_scrape(body)
             id == Len(jobs) + 1
         IN  /\ IF r.accepted /\ id <= MaxJobs
                  THEN /\ jobs' = create_job(jobs, "direct", now)
                       /\ now' = now + 1
                       /\ task' = [task EXCEPT ![id].pc = "update_running"]
                  ELSE UNCHANGED <<jobs, now, task>>
             /\ responses' = Append(responses,
                    [url |-> u, scraper_method |-> m, code |-> r.code,
                     jobs_before |-> Len(jobs), jobs_after |-> Len(jobs'),
                     scheduled |-> task' # task])
    /\ UNCHANGED <<calls, active_connections, sock, iter, delivered>>

\* A caller creates a job row for a background task
JobCreate ==
    /\ Len(jobs) < MaxTasks
    /\ \E jt \in JobType : jobs' = create_job(jobs, jt, now)
    /\ now' = now + 1
    /\ UNCHANGED <<calls, responses, task, active_connections, sock, iter, delivered>>

\* BackgroundTasks starts process_direct_scrape / process_smart_scrape
TaskStart ==
    \E j \in 1..Len(jobs) :
        /\ task[j].pc = "none"
        /\ task' = [task EXCEPT ![j].pc = "update_running"]
        /\ UNCHANGED <<jobs, now, calls, responses, active_connections, sock,
                       iter, delivered>>

\* await db.update_job_status(...): commits, or raises and rolls back
TaskUpdateStatus ==
    \E j \in 1..Len(jobs) :
        /\ task[j].pc \in UpdatePcs
        /\ \E ok \in BOOLEAN :
             IF ok
               THEN /\ jobs' = update_job_status(jobs, j, StatusArg(task[j].pc),
                                  ErrorArg(jobs[j].job_type, task[j].pc, task[j].exc), now)
                    /\ calls' = Append(calls, [job |-> j, status |-> StatusArg(task[j].pc),
                                               at |-> now])
                    /\ now' = now + 1
                    /\ task' = [task EXCEPT ![j] = Advance(j)]
               ELSE /\ task' = [task EXCEPT ![j] = Raise(task[j], "database error")]
                    /\ UNCHANGED <<jobs, now, calls>>
        /\ UNCHANGED <<responses, active_connections, sock, iter, delivered>>

\* process_direct_scrape lines 40-102 (Crawler(...), crawl(), indexing) and
\* process_smart_scrape lines 261-267 (SearchAgent(), generate_search_queries):
\* the step returns or an exception escapes it
TaskStep ==
    \E j \in 1..Len(jobs) :
        /\ task[j].pc \in {"crawl", "generate_queries"}
        /\ \/ task' = [task EXCEPT ![j] = Advance(j)]
           \/ \E e \in StepExcTexts : task' = [task EXCEPT ![j] = Raise(task[j], e)]
        /\ UNCHANGED <<jobs, now, calls, responses, active_connections, sock,
                       iter, delivered>>

\* send_update lines 63-73: the early return, or the iterator is created, its
\* first element taken and the first send_text awaited
SendBegin ==
    \E j \in 1..Len(jobs) :
        /\ task[j].pc \in BroadcastPcs
        /\ iter[j].phase = "idle"
        /\ IF j \notin DOMAIN active_connections
             THEN /\ task' = [task EXCEPT ![j] = Advance(j)]
                  /\ iter' = [iter EXCEPT ![j] = IdleIter]
             ELSE /\ \E w \in active_connections[j] :
                       iter' = [iter EXCEPT ![j] =
                           [phase |-> "sending", to |-> w,
                            si_used |-> Cardinality(active_connections[j]),
                            passed |-> {w}, detached |-> FALSE, disconnected |-> {},
                            initial |-> active_connections[j],
                            at |-> task[j].pc, result |-> "running", after |-> {}]]
                  /\ UNCHANGED task
        /\ UNCHANGED <<jobs, now, calls, responses, active_connections, sock, delivered>>

\* send_update lines 71-80: the awaited send_text completes or raises, then
\* the for statement asks the set iterator for the next element: RuntimeError
\* when the set's size differs from the size at the iterator's creation, the
\* clean-up loop and return when the iterator is exhausted, else the next send.
\* The call's record keeps what it was called on (initial, at), the
\* connections whose send raised (disconnected), how it ended (result) and the
\* registry entry it left (after).
SendStep ==
    \E j \in 1..Len(jobs) :
        /\ iter[j].phase = "sending"
        /\ LET w == iter[j].to
               sent == sock[w].state = "open"
               disc == IF sent THEN iter[j].disconnected
                       ELSE iter[j].disconnected \cup {w}
               obj == IterObj(j)
           IN  /\ delivered' = IF sent
                     THEN [delivered EXCEPT ![w] = @ \cup {Message(task[j].pc)}]
                     ELSE delivered
               /\ IF Cardinality(obj) # iter[j].si_used
                    THEN /\ task' = [task EXCEPT ![j] =
                                Raise(task[j], "Set changed size during iteration")]
                         /\ iter' = [iter EXCEPT ![j].phase = "idle",
                                                 ![j].disconnected = disc,
                                                 ![j].result = "raised"]
                         /\ UNCHANGED active_connections
                  ELSE IF obj \ iter[j].passed = {}
                    THEN /\ active_connections' =
                                DisconnectAll(active_connections, disc, j)
                         /\ task' = [task EXCEPT ![j] = Advance(j)]
                         /\ iter' = [iter EXCEPT ![j].phase = "idle",
                                ![j].disconnected = disc,
                                ![j].result = "returned",
                                ![j].after = RegistryEntry(active_connections', j)]
                  ELSE /\ \E w2 \in obj \ iter[j].passed :
                            iter' = [iter EXCEPT ![j].to = w2,
                                                 ![j].passed = @ \cup {w2},
                                                 ![j].disconnected = disc]
                       /\ UNCHANGED <<task, active_connections>>
        /\ UNCHANGED <<jobs, now, calls, responses, sock>>

\* jobs.py job_websocket line 162: manager.connect.  A connection added while
\* a send_update iterates the same set lands before or after the iterator's
\* position in the hash table.
WsConnect ==
    \E w \in WS, j \in JobIds :
        /\ sock[w].state = "new"
        /\ sock' = [sock EXCEPT ![w] = [state |-> "open", job |-> j]]
        /\ active_connections' = connect(active_connections, w, j)
        /\ IF iter[j].phase = "sending" /\ ~iter[j].detached
                /\ j \in DOMAIN active_connections
             THEN \E skipped \in BOOLEAN :
                     iter' = IF skipped THEN [iter EXCEPT ![j].passed = @ \cup {w}]
                             ELSE iter
             ELSE UNCHANGED iter
        /\ UNCHANGED <<jobs, now, calls, responses, task, delivered>>

\* The client goes away: sends to the socket fail from now on
WsPeerClose ==
    \E w \in WS :
        /\ sock[w].state = "open"
        /\ sock' = [sock EXCEPT ![w].state = "dead"]
        /\ UNCHANGED <<jobs, now, calls, responses, task, active_connections,
                       iter, delivered>>

\* jobs.py job_websocket lines 169-170: receive_text raises WebSocketDisconnect
\* and the endpoint calls manager.disconnect
WsDisconnect ==
    \E w \in WS :
        /\ sock[w].state = "dead"
        /\ sock' = [sock EXCEPT ![w].state = "gone"]
        /\ active_connections' = disconnect(active_connections, w, sock[w].job)
        /\ iter' = IF sock[w].job \in DOMAIN active_connections
                        /\ sock[w].job \notin DOMAIN active_connections'
                        /\ iter[sock[w].job].phase = "sending"
                     THEN [iter EXCEPT ![sock[w].job].detached = TRUE]
                     ELSE iter
        /\ UNCHANGED <<jobs, now, calls, responses, task, delivered>>


(***************************************************************************)
(* api/routes/scrape.py: process_direct_scrape with its on_page callback   *)
(* and process_scraped_data_to_rag, over storage/local_store.py and the    *)
(* scraped_urls table of storage/metadata_db.py                            *)
(***************************************************************************)
\* settings.data_storage_path, and the job the task runs for
DataRoot == "./data"
ScrapeJobId == 1

\* Largest number of chunks chunk_text returns for one page in the model
MaxUrlChunks == 1

VARIABLES
    store,         \* files under base_path: set of paths <<base, domain, name>>
    scraped_urls,  \* scraped_urls table: sequence of rows, row id = index
    on_page,            \* on_page in flight: [pc, local_path]
    ix             \* process_scraped_data_to_rag in flight

scrapeVars == <<store, scraped_urls, on_page, ix>>

\* LocalStore._generate_filename: "<timestamp>_<md5(url)>.json"
_generate_filename(url, t) == <<t, url>>

\* file_path.relative_to(self.base_path) and self.base_path / relative_path
relative_to(file_path, base) == Tail(file_path)
under(base, relative_path) == <<base>> \o relative_path

\* LocalStore.save_content: writes the file and returns its relative path
\* (save_content_unwritten: the path is returned, the file is not written)
save_content_unwritten(st, url, domain, t) ==
    [store |-> st,
     path |-> relative_to(<<DataRoot, domain, _generate_filename(url, t)>>, DataRoot)]
save_content(st, url, domain, t) ==
    LET file_path == <<DataRoot, domain, _generate_filename(url, t)>>
    IN  [store |-> st \cup {file_path}, path |-> relative_to(file_path, DataRoot)]

\* LocalStore.load_content, line 101: file_path.exists()
file_exists(st, relative_path) == under(DataRoot, relative_path) \in st

\* A ScrapedURL row as add_scraped_url inserts it (column defaults of the model)
ScrapedURL(job_id, url, domain, status, local_path, t) ==
    [job_id |-> job_id, url |-> url, domain |-> domain, status |-> status,
     local_path |-> local_path, scraped_at |-> t,
     chunks_generated |-> 0, embedded |-> 0]

add_scraped_url(rows, job_id, url, domain, status, local_path, t) ==
    Append(rows, ScrapedURL(job_id, url, domain, status, local_path, t))

RECURSIVE Reverse(_)
Reverse(q) == IF q = <<>> THEN <<>> ELSE Append(Reverse(Tail(q)), Head(q))

\* MetadataDB.get_urls_by_job: the ids of the job's rows, latest first
get_urls_by_job(rows, job_id) ==
    Reverse(SelectSeq([i \in 1..Len(rows) |-> i], LAMBDA i : rows[i].job_id = job_id))

\* MetadataDB.update_job_progress: only the counters that are not None
update_job_progress(js, job_id, urls_discovered, urls_scraped, urls_failed) ==
    [js EXCEPT ![job_id] =
        [@ EXCEPT !.urls_discovered = IF urls_discovered = NoneInt THEN @
                                      ELSE urls_discovered,
                  !.urls_scraped = IF urls_scraped = NoneInt THEN @ ELSE urls_scraped,
                  !.urls_failed = IF urls_failed = NoneInt THEN @ ELSE urls_failed]]

\* The coroutines class MetadataDB defines; awaiting any other attribute of
\* the object raises AttributeError
MetadataDBMethods ==
    {"initialize", "get_session", "create_job", "get_job", "update_job_status",
     "_job_started", "update_job_progress", "list_jobs", "add_scraped_url",
     "get_urls_by_job", "url_exists", "log_search_query", "get_recent_searches",
     "close"}

\* db.mark_url_as_embedded(url_id, chunks_generated) as scrape.py calls it
mark_url_as_embedded(rows, url_id, chunks_generated) ==
    IF "mark_url_as_embedded" \in MetadataDBMethods
       THEN [raised |-> FALSE,
             rows |-> [rows EXCEPT ![url_id].embedded = 1,
                                   ![url_id].chunks_generated = chunks_generated]]
       ELSE [raised |-> TRUE, rows |-> rows]

\* sum(url_chunk_counts.values())
RECURSIVE SumValues(_)
SumValues(d) ==
    IF DOMAIN d = {} THEN 0
    ELSE LET k == CHOOSE x \in DOMAIN d : TRUE
         IN  d[k] + SumValues(DictDel(d, k))

\* db.update_job_chunks(job_id, total_chunks) as scrape.py calls it
update_job_chunks(js, job_id, total_chunks) ==
    IF "update_job_chunks" \in MetadataDBMethods
       THEN [raised |-> FALSE, jobs |-> [js EXCEPT ![job_id].total_chunks = total_chunks]]
       ELSE [raised |-> TRUE, jobs |-> js]

\* manager.send_update(job_id, message) while nothing else touches the
\* registry: every open subscriber of the job receives the message
send_update_alone(del, job_id, message) ==
    [w \in WS |-> IF w \in RegistryEntry(active_connections, job_id)
                       /\ sock[w].state = "open"
                    THEN del[w] \cup {message} ELSE del[w]]

\* The message on_page hands to broadcast_progress
PageProgress == [type |-> "progress", status |-> "running", at |-> "on_page"]

IdleOnPage == [pc |-> "save", local_path |-> <<>>]
IdleIndexing ==
    [pc |-> "idle", rows |-> <<>>, vectors |-> 0, url_chunk_counts |-> <<>>,
     indexed |-> {}, errors |-> {}]

IdleScrapePart ==
    /\ store = {}
    /\ scraped_urls = <<>>
    /\ on_page = IdleOnPage
    /\ ix = IdleIndexing

\* What on_page and the indexing leave alone of the crawler, the task and the
\* connection registry
ScrapeCrawlFrame ==
    <<arg_max_depth, arg_max_pages, max_depth, max_pages, on_page_callback,
      pdf_enabled, scraper_method, site, pdf_links, pdf_page, visited, queue, failed,
      pages_crawled, cur, enqueued, dequeued, fetched, outcome_of>>
ScrapeJobFrame == <<responses, task, active_connections, sock, iter>>
IndexFrame ==
    <<now, calls, crawlVars, responses, active_connections, sock, iter, delivered,
      store, on_page>>

\* The crawl of process_direct_scrape runs between its two status updates
InCrawl == task[ScrapeJobId].pc = "crawl"

\* on_page's `except Exception` (lines 86-87), or its normal end: the callback
\* returns to crawl()
OnPageReturn ==
    /\ on_page' = IdleOnPage
    /\ cb_outcome' = [cb_outcome EXCEPT ![cur.url] = "ok"]
    /\ cpc' = "loop"

\* on_page lines 47-54: save_content writes the record, or raises
OnPageSave ==
    /\ InCrawl /\ cpc = "callback" /\ on_page.pc = "save"
    /\ \E ok \in BOOLEAN :
         IF ok
           THEN LET s == save_content(store, cur.url, get_domain(cur.url), now)
                IN  /\ store' = s.store
                    /\ on_page' = [pc |-> "add", local_path |-> s.path]
                    /\ UNCHANGED <<cb_outcome, cpc>>
           ELSE OnPageReturn /\ UNCHANGED store
    /\ UNCHANGED <<jobs, now, calls, scraped_urls, ix, delivered>>

\* on_page lines 57-65: add_scraped_url commits the row, or raises
OnPageAdd ==
    /\ InCrawl /\ cpc = "callback" /\ on_page.pc = "add"
    /\ \E ok \in BOOLEAN :
         IF ok
           THEN /\ scraped_urls' = add_scraped_url(scraped_urls, ScrapeJobId, cur.url,
                                       get_domain(cur.url), "success", on_page.local_path, now)
                /\ now' = now + 1
                /\ on_page' = [on_page EXCEPT !.pc = "progress"]
                /\ UNCHANGED <<cb_outcome, cpc>>
           ELSE OnPageReturn /\ UNCHANGED <<scraped_urls, now>>
    /\ UNCHANGED <<jobs, calls, store, ix, delivered>>

\* on_page lines 68-84: get_stats, update_job_progress (commits or raises),
\* broadcast_progress
OnPageProgress ==
    /\ InCrawl /\ cpc = "callback" /\ on_page.pc = "progress"
    /\ \E ok \in BOOLEAN :
         IF ok
           THEN /\ jobs' = update_job_progress(jobs, ScrapeJobId, get_stats.visited,
                               get_stats.visited, get_stats.failed)
                /\ delivered' = send_update_alone(delivered, ScrapeJobId, PageProgress)
           ELSE UNCHANGED <<jobs, delivered>>
    /\ OnPageReturn
    /\ UNCHANGED <<now, calls, store, scraped_urls, ix>>

\* process_scraped_data_to_rag's outer `except Exception` (lines 198-199):
\* the error is logged and the function returns
\* (OnIndexErrorPropagate: the exception leaves the function)
OnIndexErrorPropagate(t, text) == Raise(t, text)
OnIndexError(t, text) == t

\* Texts of the exceptions of the indexing phase
IndexErrors ==
    {"get_urls_by_job", "load_content", "chunk_text", "embed_batch",
     "mark_url_as_embedded", "upsert_vectors", "update_job_chunks"}

\* lines 126-138: the row list and the RAG components, or an exception of
\* get_urls_by_job / Embedder() / VectorStore() / create_index
IndexStart ==
    /\ InCrawl /\ cpc = "done" /\ ix.pc = "idle"
    /\ \E ok \in BOOLEAN :
         IF ok
           THEN /\ ix' = [ix EXCEPT !.pc = "urls",
                             !.rows = get_urls_by_job(scraped_urls, ScrapeJobId)]
                /\ UNCHANGED task
           ELSE /\ ix' = [ix EXCEPT !.pc = "returned",
                             !.errors = @ \cup {"get_urls_by_job"}]
                /\ task' = [task EXCEPT ![ScrapeJobId] = OnIndexError(@, "get_urls_by_job")]
    /\ UNCHANGED <<jobs, scraped_urls>>

\* lines 144-187, one pass of the loop over the rows: load_content, chunk_text,
\* embed_batch and mark_url_as_embedded, the first exception among them ending
\* the pass in the inner `except Exception`
IndexUrl ==
    /\ InCrawl /\ ix.pc = "urls" /\ ix.rows # <<>>
    /\ LET id == Head(ix.rows)
           row == scraped_urls[id]
           rest == [ix EXCEPT !.rows = Tail(@)]
       IN  IF row.local_path = <<>>
             THEN ix' = rest /\ UNCHANGED scraped_urls
           ELSE IF ~file_exists(store, row.local_path)
             THEN /\ ix' = [rest EXCEPT !.errors = @ \cup {"load_content"}]
                  /\ UNCHANGED scraped_urls
           ELSE \E stage \in {"load_content", "chunk_text", "embed_batch", "mark"},
                   n \in 0..MaxUrlChunks :
                  LET chunked == [rest EXCEPT !.url_chunk_counts = DictSet(@, id, n)]
                      marked == mark_url_as_embedded(scraped_urls, id, n)
                  IN  CASE stage \in {"load_content", "chunk_text"} ->
                             /\ n = 0
                             /\ ix' = [rest EXCEPT !.errors = @ \cup {stage}]
                             /\ UNCHANGED scraped_urls
                        [] stage = "embed_batch" ->
                             /\ ix' = [chunked EXCEPT !.errors = @ \cup {stage}]
                             /\ UNCHANGED scraped_urls
                        [] stage = "mark" ->
                             /\ ix' = [chunked EXCEPT
                                         !.vectors = @ + n,
                                         !.indexed = @ \cup {id},
                                         !.errors = IF marked.raised
                                                      THEN @ \cup {"mark_url_as_embedded"}
                                                      ELSE @]
                             /\ scraped_urls' = marked.rows
    /\ UNCHANGED <<jobs, task>>

\* lines 190-199 after the loop: upsert_vectors and update_job_chunks when
\* there are vectors, an exception of either ending in the outer handler
IndexUpsert ==
    /\ InCrawl /\ ix.pc = "urls" /\ ix.rows = <<>>
    /\ IF ix.vectors = 0
         THEN ix' = [ix EXCEPT !.pc = "returned"] /\ UNCHANGED <<jobs, task>>
         ELSE \E ok \in BOOLEAN :
                LET total == update_job_chunks(jobs, ScrapeJobId,
                                 SumValues(ix.url_chunk_counts))
                    text == IF ~ok THEN "upsert_vectors"
                            ELSE IF total.raised THEN "update_job_chunks" ELSE ""
                IN  IF text = ""
                      THEN /\ jobs' = total.jobs
                           /\ ix' = [ix EXCEPT !.pc = "returned"]
                           /\ UNCHANGED task
                      ELSE /\ ix' = [ix EXCEPT !.pc = "returned", !.errors = @ \cup {text}]
                           /\ task' = [task EXCEPT ![ScrapeJobId] = OnIndexError(@, text)]
                           /\ UNCHANGED jobs
    /\ UNCHANGED scraped_urls

\* process_direct_scrape line 102 returns: the task goes on to line 105
IndexReturn ==
    /\ InCrawl /\ ix.pc = "returned"
    /\ ix' = [ix EXCEPT !.pc = "left"]
    /\ task' = [task EXCEPT ![ScrapeJobId] = Advance(ScrapeJobId)]
    /\ UNCHANGED <<jobs, scraped_urls>>

\* The sites the direct-scrape task crawls in the model
ScrapeSites ==
    {[u \in {Root, P1, P2, P3} |->
        IF u = Root THEN r ELSE IF u = P1 THEN a ELSE <<>>] :
        r \in {<<P1>>, <<P1, P2>>, <<P1, Pdf>>}, a \in {<<>>, <<Root, P2>>}}

\* request.max_depth / request.max_pages and the crawler settings of the model
ScrapeLimits ==
    {[max_depth |-> NoneInt, max_pages |-> NoneInt], [max_depth |-> 1, max_pages |-> 2]}
ScrapeConfigs == {c \in CrawlConfigs : c.pdf_enabled = (c.pdf_page = P1)}

\* The task's state when BackgroundTasks enters process_direct_scrape: the job
\* row exists, and a client may already listen on the job's channel
InitScrapePart ==
    /\ jobs = create_job(<<>>, "direct", 1)
    /\ now = 2
    /\ calls = <<>>
    /\ responses = <<>>
    /\ task = [j \in JobIds |-> [pc |-> IF j = ScrapeJobId THEN "update_running"
                                        ELSE "none", exc |-> NoneStr]]
    /\ \E subs \in {{}, {"w1"}} :
         /\ active_connections = IF subs = {} THEN <<>> ELSE DictSet(<<>>, ScrapeJobId, subs)
         /\ sock = [w \in WS |-> IF w \in subs THEN [state |-> "open", job |-> ScrapeJobId]
                                 ELSE [state |-> "new", job |-> 0]]
    /\ iter = [j \in JobIds |-> IdleIter]
    /\ delivered = [w \in WS |-> {}]
    /\ \E lim \in ScrapeLimits, cfg \in ScrapeConfigs, links \in ScrapeSites :
         CrawlerInit(StartUrlArg, lim.max_depth, lim.max_pages, TRUE, cfg, links)
    /\ IdleScrapePart

(***************************************************************************)
(* scraper/fetcher.py: Fetcher                                             *)
(***************************************************************************)
FetchUrls == {P1, Ext}
Calls == {"c1", "c2"}

\* urlparse(url).netloc as can_fetch takes it
netloc_of(u) == IF u = Ext THEN "b.org" ELSE "a.com"
Domains == {netloc_of(u) : u \in FetchUrls}

\* Defaults of fetch(url, retry_count=3) and settings.rate_limit_delay
DefaultRetryCount == 3
RateLimitDelay == 1

\* What one client.get can do: a response with a status code, or one of the
\* exception classes _fetch_httpx tells apart
HttpOutcomes ==
    {[exc |-> "none", status |-> s] : s \in {200, 404, 403, 401, 500}}
    \cup {[exc |-> e, status |-> 0] : e \in {"timeout", "request_error", "other"}}

\* `if response.status_code in [404, 403, 401]`
NoRetryStatusOnly404 == {404}
NoRetryStatus == {404, 403, 401}

\* `2 ** attempt`
Pow2(n) == IF n = 0 THEN 1 ELSE IF n = 1 THEN 2 ELSE IF n = 2 THEN 4 ELSE 8
BackoffConstant(attempt) == 1
Backoff(attempt) == Pow2(attempt)

\* `if attempt < retry_count - 1` before the back-off sleep
SleepsAfter(attempt, retry_count) == attempt < retry_count - 1

\* The respect_robots argument: None takes the fetcher's setting
RobotsArgs == {"None", "True", "False"}
EffectiveRobots(arg, setting) == IF arg = "None" THEN setting ELSE arg = "True"

VARIABLES
    method,          \* Fetcher.method: "httpx" or "playwright"
    respect_robots,  \* Fetcher.respect_robots
    robots_cache,    \* Fetcher.robots_cache: dict domain -> "parser_allow",
                     \*   "parser_disallow" or "None"
    call,            \* per call slot: the fetch / download_file call in it
    sem,             \* fetch_multiple: [max, held] of its semaphore
    robots_gets      \* history: per domain, the GETs of its robots.txt

fetchVars == <<method, respect_robots, robots_cache, call, sem, robots_gets>>

Ev(ev, status, secs) == [ev |-> ev, status |-> status, secs |-> secs]

NoCall == [op |-> "none", url |-> "", respect |-> FALSE, pc |-> "none",
           attempt |-> 0, trace |-> <<>>, result |-> "pending", multi |-> FALSE]

NewCall(op, url, respect, multi) ==
    [op |-> op, url |-> url, respect |-> respect,
     pc |-> IF multi THEN "sem_wait" ELSE "start",
     attempt |-> 0, trace |-> <<>>, result |-> "pending", multi |-> multi]

\* The call returns (or raises): its slot keeps the result
Finish(c, r) == [c EXCEPT !.pc = "done", !.result = r]

\* fetch and download_file answer a refusal by robots.txt differently
Refused(c) == Finish(c, IF c.op = "fetch" THEN "None" ELSE "False")

\* After can_fetch allowed the URL (or robots checking is off): the static
\* paths go to the rate-limit sleep, the browser path to PlaywrightFetcher
\* (AfterRobotsNoSleep: the static paths issue their GET without the sleep)
AfterRobotsNoSleep(c) ==
    IF c.op = "fetch" /\ method = "playwright"
       THEN [c EXCEPT !.pc = "playwright"]
       ELSE [c EXCEPT !.pc = "rate_sleep"]
AfterRobots(c) ==
    IF c.op = "fetch" /\ method = "playwright"
       THEN [c EXCEPT !.pc = "playwright"]
       ELSE [c EXCEPT !.pc = "rate_sleep",
                      !.trace = Append(@, Ev("sleep_rate", 0, RateLimitDelay))]

\* parser.can_fetch(user_agent, url) / `if parser is None: return True`
Allowed(entry) == entry # "parser_disallow"

\* asyncio.Semaphore(max_concurrent): `async with semaphore` enters while the
\* counter is positive (SemFreeInclusive: one holder too many gets in)
SemFreeInclusive(s) == Cardinality(s.held) <= s.max
SemFree(s) == Cardinality(s.held) < s.max

\* fetch_with_semaphore leaves `async with semaphore` when its fetch returns
Released(s, cs) == [s EXCEPT !.held = {c \in @ : cs[c].pc # "done"}]

InitFetchPart ==
    /\ method \in {"httpx", "playwright"}
    /\ respect_robots \in BOOLEAN
    /\ robots_cache = <<>>
    /\ call = [c \in Calls |-> NoCall]
    /\ sem = [max |-> 0, held |-> {}]
    /\ robots_gets = [d \in Domains |-> 0]

IdleFetchPart ==
    /\ method = "httpx"
    /\ respect_robots = TRUE
    /\ robots_cache = <<>>
    /\ call = [c \in Calls |-> NoCall]
    /\ sem = [max |-> 0, held |-> {}]
    /\ robots_gets = [d \in Domains |-> 0]

\* A caller awaits fetcher.fetch(url) or fetcher.download_file(url, path, ...)
FetchCall ==
    \E c \in Calls, op \in {"fetch", "download_file"}, u \in FetchUrls,
       arg \in RobotsArgs :
        /\ call[c].op = "none"
        /\ \A c2 \in Calls : ~call[c2].multi
        /\ op = "fetch" => arg = "None"
        /\ call' = [call EXCEPT ![c] =
                       NewCall(op, u, EffectiveRobots(arg, respect_robots), FALSE)]
        /\ UNCHANGED <<method, respect_robots, robots_cache, sem, robots_gets>>

\* fetch_multiple(urls, max_concurrent): one task per URL under a semaphore
FetchMultiple ==
    /\ \A c \in Calls : call[c].op = "none"
    /\ \E urls \in [Calls -> FetchUrls], mc \in {1, 5} :
          /\ call' = [c \in Calls |->
                         NewCall("fetch", urls[c],
                                 EffectiveRobots("None", respect_robots), TRUE)]
          /\ sem' = [max |-> mc, held |-> {}]
    /\ UNCHANGED <<method, respect_robots, robots_cache, robots_gets>>

\* `async with semaphore:` entered
SemAcquire ==
    \E c \in Calls :
        /\ call[c].pc = "sem_wait"
        /\ SemFree(sem)
        /\ sem' = [sem EXCEPT !.held = @ \cup {c}]
        /\ call' = [call EXCEPT ![c].pc = "start"]
        /\ UNCHANGED <<method, respect_robots, robots_cache, robots_gets>>

\* _fetch_httpx / _fetch_playwright / download_file up to their first await:
\* without robots checking the rate-limit sleep (or the browser fetch) starts;
\* with it, can_fetch -> _get_robots_parser answers from the cache or issues
\* the GET of robots.txt and awaits it
RobotsCheck ==
    \E c \in Calls :
        /\ call[c].pc = "start"
        /\ LET d == netloc_of(call[c].url)
           IN  IF ~call[c].respect
                 THEN /\ call' = [call EXCEPT ![c] = AfterRobots(call[c])]
                      /\ UNCHANGED robots_gets
               ELSE IF d \in DOMAIN robots_cache
                 THEN /\ call' = [call EXCEPT ![c] =
                             IF Allowed(robots_cache[d]) THEN AfterRobots(call[c])
                             ELSE Refused(call[c])]
                      /\ UNCHANGED robots_gets
               ELSE /\ call' = [call EXCEPT ![c].pc = "robots_wait",
                                           ![c].trace = Append(@, Ev("robots_get", 0, 0))]
                    /\ robots_gets' = [robots_gets EXCEPT ![d] = @ + 1]
        /\ sem' = Released(sem, call')
        /\ UNCHANGED <<method, respect_robots, robots_cache>>

\* _get_robots_parser lines 86-99 after the await: a 200 caches the parser,
\* any other status or an exception caches None; then can_fetch decides
RobotsResponse ==
    \E c \in Calls :
        /\ call[c].pc = "robots_wait"
        /\ \E entry \in {"parser_allow", "parser_disallow", "None"} :
             /\ robots_cache' = DictSet(robots_cache, netloc_of(call[c].url), entry)
             /\ call' = [call EXCEPT ![c] =
                            IF Allowed(entry) THEN AfterRobots(call[c])
                            ELSE Refused(call[c])]
        /\ sem' = Released(sem, call')
        /\ UNCHANGED <<method, respect_robots, robots_gets>>

\* asyncio.sleep(rate_limit_delay) is over: the first client.get is issued
RateSleepDone ==
    \E c \in Calls :
        /\ call[c].pc = "rate_sleep"
        /\ call' = [call EXCEPT ![c] =
               IF @.op = "fetch" /\ DefaultRetryCount = 0
                 THEN Finish(@, "None")
                 ELSE [@ EXCEPT !.pc = "get_wait",
                                !.trace = Append(@, Ev("get", 0, 0))]]
        /\ sem' = Released(sem, call')
        /\ UNCHANGED <<method, respect_robots, robots_cache, robots_gets>>

\* One pass of the retry loop of _fetch_httpx (lines 175-206) after its
\* client.get: the page, None at once, or the back-off sleep / the next
\* iteration / the end of the loop
AfterAttempt(c, o) ==
    LET logged == [c EXCEPT !.trace = Append(@, Ev(IF o.exc = "none" THEN "response"
                                                    ELSE o.exc, o.status, 0))]
    IN  IF o.exc = "none" /\ o.status = 200 THEN Finish(logged, "page")
        ELSE IF o.exc = "none" /\ o.status \in NoRetryStatus THEN Finish(logged, "None")
        ELSE IF o.exc = "other" THEN Finish(logged, "None")
        ELSE IF SleepsAfter(c.attempt, DefaultRetryCount)
          THEN [logged EXCEPT !.pc = "backoff",
                   !.trace = Append(@, Ev("sleep_backoff", 0, Backoff(c.attempt)))]
        ELSE IF c.attempt + 1 < DefaultRetryCount
          THEN [logged EXCEPT !.pc = "get_wait", !.attempt = @ + 1,
                   !.trace = Append(@, Ev("get", 0, 0))]
        ELSE Finish(logged, "None")

\* download_file lines 262-278 after its client.get
AfterDownload(c, o) ==
    LET logged == [c EXCEPT !.trace = Append(@, Ev(IF o.exc = "none" THEN "response"
                                                    ELSE o.exc, o.status, 0))]
    IN  Finish(logged, IF o.exc = "none" /\ o.status = 200 THEN "True" ELSE "False")

HttpResponse ==
    \E c \in Calls, o \in HttpOutcomes :
        /\ call[c].pc = "get_wait"
        /\ call' = [call EXCEPT ![c] =
               IF @.op = "fetch" THEN AfterAttempt(@, o) ELSE AfterDownload(@, o)]
        /\ sem' = Released(sem, call')
        /\ UNCHANGED <<method, respect_robots, robots_cache, robots_gets>>

\* asyncio.sleep(2 ** attempt) is over: the next iteration issues its get
BackoffDone ==
    \E c \in Calls :
        /\ call[c].pc = "backoff"
        /\ call' = [call EXCEPT ![c].pc = "get_wait", ![c].attempt = @ + 1,
                                ![c].trace = Append(@, Ev("get", 0, 0))]
        /\ UNCHANGED <<method, respect_robots, robots_cache, sem, robots_gets>>

\* playwright_fetcher.fetch(url, respect_robots=False) returns the rendered
\* page or None, or initialize() raises
PlaywrightFetch ==
    \E c \in Calls, r \in {"page", "None", "raised"} :
        /\ call[c].pc = "playwright"
        /\ call' = [call EXCEPT ![c] = Finish(@, r)]
        /\ sem' = Released(sem, call')
        /\ UNCHANGED <<method, respect_robots, robots_cache, robots_gets>>

\* fetch_multiple lines 301-304: gather keeps the order of the task list, an
\* exception of a task leaves gather and fetch_multiple, and dict() keeps the
\* last pair of each key
CallOrder == <<"c1", "c2">>
gather ==
    [i \in 1..Len(CallOrder) |->
        [url |-> call[CallOrder[i]].url, result |-> call[CallOrder[i]].result]]

RECURSIVE dict(_)
dict(pairs) ==
    IF pairs = <<>> THEN <<>>
    ELSE LET last == pairs[Len(pairs)]
         IN  DictSet(dict(SubSeq(pairs, 1, Len(pairs) - 1)), last.url, last.result)

fetch_multiple ==
    IF \E i \in 1..Len(gather) : gather[i].result = "raised"
       THEN [raised |-> TRUE, map |-> <<>>]
       ELSE [raised |-> FALSE, map |-> dict(gather)]

(***************************************************************************)
(* rag/rag_service.py: RAGService.answer_query, with                       *)
(* ai/structured_extractor.py: StructuredExtractor.extract                 *)
(***************************************************************************)
MaxChunks == 2

\* Queries of the model and what _detect_data_type makes of them: the first
\* keyword list with a keyword contained in the lower-cased query decides
Queries == {"Menu prices?", "opening hours", "phone", "how much", "who are you"}
_detect_data_type(query) ==
    CASE query = "Menu prices?" -> "menu"
      [] query = "opening hours" -> "business_hours"
      [] query = "phone" -> "contact_info"
      [] query = "how much" -> "pricing"
      [] OTHER -> "none"

ApologyText ==
    "I couldn't find any relevant information in the scraped content to answer your question. Please make sure you've scraped content related to this topic."
ErrorText ==
    "I encountered an error while generating the answer. Please try again."

VARIABLES
    rag    \* one answer_query request: its arguments, position and result

ragVars == <<rag>>

\* The keys every result dict has, and the result before any key is set
BaseKeys == {"query", "answer", "sources", "search_results", "response_time_ms"}
StructuredKeys == {"data_type", "confidence", "structured_data", "has_structured_data"}
NoResult == [keys |-> {}, answer |-> "", sources |-> 0, data_type |-> "",
             confidence |-> "", structured_data |-> "", has_structured_data |-> FALSE]

\* `if not search_results['results']`
NoResultsNever(n) == FALSE
NoResults(n) == n = 0

\* The dict of lines 59-65 and of lines 122-128
EarlyResult == [NoResult EXCEPT !.keys = BaseKeys, !.answer = ApologyText]
FullResult(answer, n) ==
    [NoResult EXCEPT !.keys = BaseKeys, !.answer = answer, !.sources = n]

\* StructuredExtractor.extract: the outcome of generate_json + json.loads is
\* "data" (a non-empty object), "empty" (valid JSON that is falsy), "invalid"
\* (json.loads raises) or "raise" (the API call fails)
JsonOutcomes == {"data", "empty", "invalid", "raise"}
extract(query, json_outcome) ==
    LET data_type == _detect_data_type(query)
    IN  IF data_type = "none"
          THEN [data_type |-> "none", has_structured_data |-> FALSE,
                structured_data |-> "None", confidence |-> "0.0"]
        ELSE IF json_outcome = "data"
          THEN [data_type |-> data_type, has_structured_data |-> TRUE,
                structured_data |-> "data", confidence |-> "0.9"]
        ELSE [data_type |-> data_type, has_structured_data |-> FALSE,
              structured_data |-> "None", confidence |-> "0.0"]

\* result.update({...}) of lines 133-138
WithExtractionIfFound(result, er) ==
    IF er.has_structured_data
       THEN [result EXCEPT !.keys = @ \cup StructuredKeys,
                           !.data_type = er.data_type,
                           !.confidence = er.confidence,
                           !.structured_data = er.structured_data,
                           !.has_structured_data = er.has_structured_data]
       ELSE result
WithExtraction(result, er) ==
    [result EXCEPT !.keys = @ \cup StructuredKeys,
                   !.data_type = er.data_type,
                   !.confidence = er.confidence,
                   !.structured_data = er.structured_data,
                   !.has_structured_data = er.has_structured_data]

NoRequest == [pc |-> "none", query |-> "", extract_structured |-> FALSE,
              n |-> 0, llm_calls |-> 0, llm_failed |-> FALSE, result |-> NoResult]

InitRagPart ==
    \E q \in Queries, x \in BOOLEAN :
        rag = [NoRequest EXCEPT !.pc = "search", !.query = q,
                                !.extract_structured = x]

IdleRagPart == rag = NoRequest

\* answer_query lines 49-65: retriever.search returns its chunks or raises;
\* with no chunk the request is answered at once
RagSearch ==
    /\ rag.pc = "search"
    /\ \/ rag' = [rag EXCEPT !.pc = "raised"]
       \/ \E n \in 0..MaxChunks :
            rag' = IF NoResults(n)
                     THEN [rag EXCEPT !.pc = "returned", !.n = n,
                                      !.result = EarlyResult]
                     ELSE [rag EXCEPT !.pc = "generate", !.n = n]

\* answer_query lines 98-128: groq_client.generate returns the answer or
\* raises, and the result dict is built
RagGenerate ==
    /\ rag.pc = "generate"
    /\ \E ok \in BOOLEAN :
         LET answer == IF ok THEN "generated answer" ELSE ErrorText
         IN  rag' = [rag EXCEPT
                        !.pc = IF rag.extract_structured THEN "extract" ELSE "returned",
                        !.llm_calls = @ + 1,
                        !.llm_failed = ~ok,
                        !.result = FullResult(answer, rag.n)]

\* answer_query lines 131-141: extractor.extract, which calls the LLM unless
\* no data type is detected, and the merge of its four fields
RagExtract ==
    /\ rag.pc = "extract"
    /\ \E o \in JsonOutcomes :
         rag' = [rag EXCEPT
                    !.pc = "returned",
                    !.llm_calls = IF _detect_data_type(rag.query) = "none"
                                    THEN @ ELSE @ + 1,
                    !.result = WithExtraction(@, extract(rag.query, o))]

(***************************************************************************)
(* api/routes/export.py: POST /export/                                     *)
(***************************************************************************)
MaxExports == 2

\* Request bodies of the model: the format field and str.lower() on it, and
\* the kind of the data object
ExportFormats == {"json", "JSON", "csv", "Markdown", "md", "MD", "xml", "XML", "pdf", ""}
lower(s) ==
    CASE s = "JSON" -> "json"
      [] s = "Markdown" -> "markdown"
      [] s = "MD" -> "md"
      [] s = "XML" -> "xml"
      [] OTHER -> s
\* "menu": a well-formed menu object; "generic": an object of no special
\* type; "bad_menu": data_type "menu" whose categories are not objects, on
\* which dict_to_csv and dict_to_markdown raise AttributeError
ExportData == {"menu", "generic", "bad_menu"}

VARIABLES
    exports   \* history: the requests to POST /export/ and their responses

exportVars == <<exports>>

\* The body of the try block of export_data: the file it builds, or the
\* exception raised inside the block
export_try(format, data) ==
    LET export_format == lower(format)
    IN  IF export_format = "json"
          THEN [raised |-> "none", status_code |-> 0, media_type |-> "application/json"]
        ELSE IF export_format = "csv"
          THEN IF data = "bad_menu"
                 THEN [raised |-> "AttributeError", status_code |-> 0, media_type |-> ""]
                 ELSE [raised |-> "none", status_code |-> 0, media_type |-> "text/csv"]
        ELSE IF export_format = "markdown" \/ export_format = "md"
          THEN IF data = "bad_menu"
                 THEN [raised |-> "AttributeError", status_code |-> 0, media_type |-> ""]
                 ELSE [raised |-> "none", status_code |-> 0, media_type |-> "text/markdown"]
        ELSE [raised |-> "HTTPException", status_code |-> 400, media_type |-> ""]

\* export_data: `except Exception as e: raise HTTPException(status_code=500)`
\* catches whatever the try block raised, HTTPException being an Exception
export_data(format, data) ==
    LET t == export_try(format, data)
    IN  IF t.raised = "none"
          THEN [code |-> 200, file |-> TRUE, media_type |-> t.media_type]
          ELSE [code |-> 500, file |-> FALSE, media_type |-> ""]

InitExportPart == exports = <<>>

Export ==
    /\ Len(exports) < MaxExports
    /\ \E f \in ExportFormats, dt \in ExportData :
         exports' = Append(exports, [format |-> f, data |-> dt,
                                     response |-> export_data(f, dt)])

(***************************************************************************)
(* Character strings: a string is the sequence of its characters.          *)
(***************************************************************************)
\* The index of the first character of s that is in cs, 0 when there is none
FirstIndex(s, cs) ==
    IF \E i \in 1..Len(s) : s[i] \in cs
       THEN CHOOSE i \in 1..Len(s) : s[i] \in cs /\ \A k \in 1..(i - 1) : s[k] \notin cs
       ELSE 0
From(s, i) == SubSeq(s, i, Len(s))
IsPrefix(p, s) == Len(p) <= Len(s) /\ SubSeq(s, 1, Len(p)) = p
EndsWith(s, ch) == Len(s) > 0 /\ s[Len(s)] = ch
Strings(alphabet, n) == UNION {[1..k -> alphabet] : k \in 0..n}

(***************************************************************************)
(* utils/validators.py: normalize_url on character strings (the crawler    *)
(* above uses it tabulated on its few URLs).                               *)
(***************************************************************************)
MaxTail == 4

\* URLs of the model: h://a followed by any string of /, x, ? and #
UrlHead == <<"h", ":", "/", "/", "a">>
UrlTexts == {UrlHead \o t : t \in Strings({"/", "x", "?", "#"}, MaxTail)}

\* urllib.parse.urlparse
urlparse_text(u) ==
    LET c == FirstIndex(u, {":"})
        scheme == IF c = 0 THEN <<>> ELSE SubSeq(u, 1, c - 1)
        rest0 == From(u, c + 1)
        has_netloc == Len(rest0) >= 2 /\ rest0[1] = "/" /\ rest0[2] = "/"
        after == IF has_netloc THEN From(rest0, 3) ELSE rest0
        dl == FirstIndex(after, {"/", "?", "#"})
        netloc == IF ~has_netloc THEN <<>>
                  ELSE IF dl = 0 THEN after ELSE SubSeq(after, 1, dl - 1)
        rest == IF ~has_netloc THEN rest0
                ELSE IF dl = 0 THEN <<>> ELSE From(after, dl)
        f == FirstIndex(rest, {"#"})
        nofrag == IF f = 0 THEN rest ELSE SubSeq(rest, 1, f - 1)
        q == FirstIndex(nofrag, {"?"})
    IN  [scheme |-> scheme, netloc |-> netloc,
         path |-> IF q = 0 THEN nofrag ELSE SubSeq(nofrag, 1, q - 1),
         query |-> IF q = 0 THEN <<>> ELSE From(nofrag, q + 1),
         fragment |-> IF f = 0 THEN <<>> ELSE From(rest, f + 1)]

\* validators.normalize_url
normalize_url_text(url) ==
    LET parsed == urlparse_text(url)
        base == parsed.scheme \o <<":", "/", "/">> \o parsed.netloc \o parsed.path
        normalized == IF parsed.query # <<>> THEN base \o <<"?">> \o parsed.query
                      ELSE base
    IN  IF EndsWith(normalized, "/") /\ Len(parsed.path) > 1
          THEN SubSeq(normalized, 1, Len(normalized) - 1)
          ELSE normalized

VARIABLES
    nu    \* a caller normalizing a URL and normalizing the result again

normVars == <<nu>>

InitNormPart ==
    \E u \in UrlTexts : nu = [pc |-> "start", url |-> u, once |-> <<>>, twice |-> <<>>]

IdleNormPart == nu = [pc |-> "none", url |-> <<>>, once |-> <<>>, twice |-> <<>>]

NormalizeOnce ==
    /\ nu.pc = "start"
    /\ nu' = [nu EXCEPT !.pc = "once", !.once = normalize_url_text(nu.url)]

NormalizeAgain ==
    /\ nu.pc = "once"
    /\ nu' = [nu EXCEPT !.pc = "twice", !.twice = normalize_url_text(nu.once)]

(***************************************************************************)
(* rag/chunker.py: Chunker                                                 *)
(***************************************************************************)
MaxTextLen == 5
MaxSizeArg == 3

SettingsChunkSize == 500
SettingsChunkOverlap == 50

\* Documents of the model: strings of a letter, the full stop and the space
Texts == Strings({"a", ".", " "}, MaxTextLen)

\* str.strip()
strip(s) ==
    LET idx == {i \in 1..Len(s) : s[i] # " "}
    IN  IF idx = {} THEN <<>>
        ELSE SubSeq(s, CHOOSE i \in idx : \A k \in idx : i <= k,
                       CHOOSE i \in idx : \A k \in idx : i >= k)

\* re.split(r'(?<=[.!?])\s+', text): the text is cut at every run of
\* whitespace that follows a sentence terminator, the run being dropped
RECURSIVE re_split(_, _, _)
re_split(text, i, piece) ==
    IF i > Len(text) THEN <<piece>>
    ELSE IF text[i] = " " /\ i > 1 /\ text[i - 1] = "."
      THEN LET rest == From(text, i)
               n == FirstIndex(rest, {"a", "."})
           IN  IF n = 0 THEN <<piece, <<>>>>
               ELSE <<piece>> \o re_split(text, i + n - 1, <<>>)
    ELSE re_split(text, i + 1, Append(piece, text[i]))

\* Chunker._split_sentences
_split_sentences(text) ==
    LET pieces == re_split(text, 1, <<>>)
        stripped == [i \in 1..Len(pieces) |-> strip(pieces[i])]
    IN  SelectSeq(stripped, LAMBDA s : s # <<>>)

\* ' '.join(parts)
RECURSIVE join(_)
join(parts) ==
    IF parts = <<>> THEN <<>>
    ELSE IF Len(parts) = 1 THEN parts[1]
    ELSE parts[1] \o <<" ">> \o join(Tail(parts))

\* `chunk_text[-self.chunk_overlap:] if len(chunk_text) > self.chunk_overlap
\* else chunk_text`
OverlapTextHead(chunk_text, chunk_overlap) ==
    IF Len(chunk_text) > chunk_overlap
       THEN SubSeq(chunk_text, 1, chunk_overlap)
       ELSE chunk_text
OverlapText(chunk_text, chunk_overlap) ==
    IF Len(chunk_text) > chunk_overlap
       THEN SubSeq(chunk_text, Len(chunk_text) - chunk_overlap + 1, Len(chunk_text))
       ELSE chunk_text

VARIABLES
    ck    \* one Chunker and one chunk_text call on it

chunkVars == <<ck>>

IdleChunker ==
    [pc |-> "none", text |-> <<>>, chunk_size |-> SettingsChunkSize,
     chunk_overlap |-> SettingsChunkOverlap, sentences |-> <<>>, next |-> 1,
     current_chunk |-> <<>>, current_size |-> 0, chunks |-> <<>>]

\* Chunker(chunk_size, chunk_overlap) and the call chunk_text(text)
InitChunkPart ==
    \E text \in Texts, s \in {NoneInt} \cup 0..MaxSizeArg,
       o \in {NoneInt} \cup 0..MaxSizeArg :
        ck = [IdleChunker EXCEPT !.pc = "start", !.text = text,
                  !.chunk_size = PyOr(s, SettingsChunkSize),
                  !.chunk_overlap = PyOr(o, SettingsChunkOverlap)]

IdleChunkPart == ck = IdleChunker

\* chunk_text lines 45-53
ChunkStart ==
    /\ ck.pc = "start"
    /\ ck' = IF ck.text = <<>> THEN [ck EXCEPT !.pc = "returned"]
             ELSE [ck EXCEPT !.pc = "loop", !.sentences = _split_sentences(ck.text)]

\* chunk_text lines 55-70: one iteration of `for sentence in sentences`
ChunkSentence ==
    /\ ck.pc = "loop"
    /\ ck.next <= Len(ck.sentences)
    /\ LET sentence == ck.sentences[ck.next]
           sentence_size == Len(sentence)
       IN  IF ck.current_size + sentence_size > ck.chunk_size /\ ck.current_chunk # <<>>
             THEN LET chunk_text == join(ck.current_chunk)
                      overlap_text == OverlapText(chunk_text, ck.chunk_overlap)
                  IN  ck' = [ck EXCEPT !.chunks = Append(@, chunk_text),
                                !.current_chunk = <<overlap_text, sentence>>,
                                !.current_size = Len(overlap_text) + sentence_size,
                                !.next = @ + 1]
             ELSE ck' = [ck EXCEPT !.current_chunk = Append(@, sentence),
                                   !.current_size = @ + sentence_size,
                                   !.next = @ + 1]

\* chunk_text lines 72-78: the remaining chunk and the return
ChunkReturn ==
    /\ ck.pc = "loop"
    /\ ck.next > Len(ck.sentences)
    /\ ck' = [ck EXCEPT !.pc = "returned",
                        !.chunks = IF ck.current_chunk # <<>>
                                     THEN Append(@, join(ck.current_chunk)) ELSE @]

(***************************************************************************)
(* SpecDb: callers of MetadataDB in any order.                             *)
(***************************************************************************)
DbErrorMessages == {NoneStr, "boom"}

InitDbPart ==
    /\ jobs = <<>>
    /\ now = 1
    /\ calls = <<>>

DbCreateJob ==
    /\ Len(jobs) < MaxJobs
    /\ \E jt \in JobType : jobs' = create_job(jobs, jt, now)
    /\ now' = now + 1
    /\ UNCHANGED calls

DbUpdateJobStatus ==
    /\ Len(calls) < MaxCalls
    /\ \E j \in 1..Len(jobs), st \in JobStatus, em \in DbErrorMessages :
          /\ jobs' = update_job_status(jobs, j, st, em, now)
          /\ calls' = Append(calls, [job |-> j, status |-> st, at |-> now])
    /\ now' = now + 1


vars == <<jobs, now, calls,
          arg_max_depth, arg_max_pages, max_depth, max_pages,
          on_page_callback, pdf_enabled, scraper_method, site, pdf_links, pdf_page,
          visited, queue, failed, pages_crawled, cpc, cur,
          enqueued, dequeued, fetched, outcome_of, cb_outcome,
          responses, task, active_connections, sock, iter, delivered,
          method, respect_robots, robots_cache, call, sem, robots_gets,
          store, scraped_urls, on_page, ix,
          rag, exports, nu, ck>>

\* The request-scoped components, which keep no state between requests
pureVars == <<ragVars, exportVars, normVars, chunkVars>>
IdlePurePart == IdleRagPart /\ InitExportPart /\ IdleNormPart /\ IdleChunkPart

\* The crawler while no crawl is modelled
IdleCrawlPart ==
    /\ arg_max_depth = NoneInt /\ arg_max_pages = NoneInt
    /\ max_depth = SettingsMaxDepth /\ max_pages = DefaultMaxPages
    /\ on_page_callback = FALSE /\ pdf_enabled = FALSE /\ scraper_method = "httpx"
    /\ site = <<>> /\ pdf_links = <<>> /\ pdf_page = Root
    /\ visited = {} /\ queue = <<>> /\ failed = <<>> /\ pages_crawled = 0
    /\ cpc = "idle" /\ cur = Entry("", 0)
    /\ enqueued = <<>> /\ dequeued = <<>> /\ fetched = <<>>
    /\ outcome_of = <<>> /\ cb_outcome = <<>>

InitDb == InitDbPart /\ IdleCrawlPart /\ InitJobPart /\ IdleFetchPart /\ IdleScrapePart /\ IdlePurePart
NextDb ==
    \/ DbCreateJob /\ UNCHANGED <<crawlVars, jobVars, fetchVars, scrapeVars, pureVars>>
    \/ DbUpdateJobStatus /\ UNCHANGED <<crawlVars, jobVars, fetchVars, scrapeVars, pureVars>>
SpecDb == InitDb /\ [][NextDb]_vars

InitCrawl == InitCrawlPart /\ InitDbPart /\ InitJobPart /\ IdleFetchPart /\ IdleScrapePart /\ IdlePurePart
NextCrawl ==
    \/ CrawlDequeue /\ UNCHANGED <<dbVars, jobVars, fetchVars, scrapeVars, pureVars>>
    \/ CrawlPage /\ UNCHANGED <<dbVars, jobVars, fetchVars, scrapeVars, pureVars>>
    \/ ProcessPdf /\ UNCHANGED <<dbVars, jobVars, fetchVars, scrapeVars, pureVars>>
    \/ CrawlCallback /\ UNCHANGED <<dbVars, jobVars, fetchVars, scrapeVars, pureVars>>
    \/ CrawlReturn /\ UNCHANGED <<dbVars, jobVars, fetchVars, scrapeVars, pureVars>>
SpecCrawl == InitCrawl /\ [][NextCrawl]_vars

\* The same crawl on the event loop: every await of crawl() returns at some
\* time, so the coroutine is always resumed
SpecCrawlFair == SpecCrawl /\ WF_vars(NextCrawl)

\* The HTTP surface alone: requests to POST /scrape/direct
InitApi == InitDbPart /\ IdleCrawlPart /\ InitJobPart /\ IdleFetchPart /\ IdleScrapePart /\ IdlePurePart
NextApi == DirectScrape /\ UNCHANGED <<crawlVars, fetchVars, scrapeVars, pureVars>>
SpecApi == InitApi /\ [][NextApi]_vars

\* Jobs, their background tasks and the WebSocket registry
InitJob == InitDbPart /\ IdleCrawlPart /\ InitJobPart /\ IdleFetchPart /\ IdleScrapePart /\ IdlePurePart
NextJob ==
    \/ JobCreate /\ UNCHANGED <<crawlVars, fetchVars, scrapeVars, pureVars>>
    \/ TaskStart /\ UNCHANGED <<crawlVars, fetchVars, scrapeVars, pureVars>>
    \/ TaskUpdateStatus /\ UNCHANGED <<crawlVars, fetchVars, scrapeVars, pureVars>>
    \/ TaskStep /\ UNCHANGED <<crawlVars, fetchVars, scrapeVars, pureVars>>
    \/ SendBegin /\ UNCHANGED <<crawlVars, fetchVars, scrapeVars, pureVars>>
    \/ SendStep /\ UNCHANGED <<crawlVars, fetchVars, scrapeVars, pureVars>>
    \/ WsConnect /\ UNCHANGED <<crawlVars, fetchVars, scrapeVars, pureVars>>
    \/ WsPeerClose /\ UNCHANGED <<crawlVars, fetchVars, scrapeVars, pureVars>>
    \/ WsDisconnect /\ UNCHANGED <<crawlVars, fetchVars, scrapeVars, pureVars>>
SpecJob == InitJob /\ [][NextJob]_vars

\* process_direct_scrape for one job, from its first status update to its
\* return: the crawl with on_page as its callback, then the indexing
InitScrape == InitScrapePart /\ IdleFetchPart /\ IdlePurePart
NextScrape ==
    \/ TaskUpdateStatus /\ UNCHANGED <<crawlVars, fetchVars, scrapeVars, pureVars>>
    \/ SendBegin /\ UNCHANGED <<crawlVars, fetchVars, scrapeVars, pureVars>>
    \/ SendStep /\ UNCHANGED <<crawlVars, fetchVars, scrapeVars, pureVars>>
    \/ InCrawl /\ CrawlDequeue /\ UNCHANGED <<dbVars, jobVars, fetchVars, scrapeVars, pureVars>>
    \/ InCrawl /\ CrawlPage /\ UNCHANGED <<dbVars, jobVars, fetchVars, scrapeVars, pureVars>>
    \/ InCrawl /\ ProcessPdf /\ UNCHANGED <<dbVars, jobVars, fetchVars, scrapeVars, pureVars>>
    \/ InCrawl /\ CrawlReturn /\ UNCHANGED <<dbVars, jobVars, fetchVars, scrapeVars, pureVars>>
    \/ OnPageSave /\ UNCHANGED <<ScrapeCrawlFrame, ScrapeJobFrame, fetchVars, pureVars>>
    \/ OnPageAdd /\ UNCHANGED <<ScrapeCrawlFrame, ScrapeJobFrame, fetchVars, pureVars>>
    \/ OnPageProgress /\ UNCHANGED <<ScrapeCrawlFrame, ScrapeJobFrame, fetchVars, pureVars>>
    \/ IndexStart /\ UNCHANGED <<IndexFrame, fetchVars, pureVars>>
    \/ IndexUrl /\ UNCHANGED <<IndexFrame, fetchVars, pureVars>>
    \/ IndexUpsert /\ UNCHANGED <<IndexFrame, fetchVars, pureVars>>
    \/ IndexReturn /\ UNCHANGED <<IndexFrame, fetchVars, pureVars>>
SpecScrape == InitScrape /\ [][NextScrape]_vars

\* One Fetcher object and the calls its users make on it
InitFetch == InitFetchPart /\ InitDbPart /\ IdleCrawlPart /\ InitJobPart /\ IdleScrapePart /\ IdlePurePart
NextFetch ==
    \/ FetchCall /\ UNCHANGED <<dbVars, crawlVars, jobVars, scrapeVars, pureVars>>
    \/ FetchMultiple /\ UNCHANGED <<dbVars, crawlVars, jobVars, scrapeVars, pureVars>>
    \/ SemAcquire /\ UNCHANGED <<dbVars, crawlVars, jobVars, scrapeVars, pureVars>>
    \/ RobotsCheck /\ UNCHANGED <<dbVars, crawlVars, jobVars, scrapeVars, pureVars>>
    \/ RobotsResponse /\ UNCHANGED <<dbVars, crawlVars, jobVars, scrapeVars, pureVars>>
    \/ RateSleepDone /\ UNCHANGED <<dbVars, crawlVars, jobVars, scrapeVars, pureVars>>
    \/ HttpResponse /\ UNCHANGED <<dbVars, crawlVars, jobVars, scrapeVars, pureVars>>
    \/ BackoffDone /\ UNCHANGED <<dbVars, crawlVars, jobVars, scrapeVars, pureVars>>
    \/ PlaywrightFetch /\ UNCHANGED <<dbVars, crawlVars, jobVars, scrapeVars, pureVars>>
SpecFetch == InitFetch /\ [][NextFetch]_vars

\* The stateful components while a request-scoped one is modelled
sysVars == <<dbVars, crawlVars, jobVars, fetchVars, scrapeVars>>
IdleSysPart ==
    InitDbPart /\ IdleCrawlPart /\ InitJobPart /\ IdleFetchPart /\ IdleScrapePart

\* One answer_query request
InitRag == InitRagPart /\ IdleSysPart
           /\ InitExportPart /\ IdleNormPart /\ IdleChunkPart
NextRag ==
    \/ RagSearch /\ UNCHANGED <<sysVars, exportVars, normVars, chunkVars>>
    \/ RagGenerate /\ UNCHANGED <<sysVars, exportVars, normVars, chunkVars>>
    \/ RagExtract /\ UNCHANGED <<sysVars, exportVars, normVars, chunkVars>>
SpecRag == InitRag /\ [][NextRag]_vars

\* Requests to POST /export/
InitExport == InitExportPart /\ IdleSysPart
              /\ IdleRagPart /\ IdleNormPart /\ IdleChunkPart
NextExport == Export /\ UNCHANGED <<sysVars, ragVars, normVars, chunkVars>>
SpecExport == InitExport /\ [][NextExport]_vars

\* normalize_url applied to a URL and to its own result
InitNorm == InitNormPart /\ IdleSysPart
            /\ IdleRagPart /\ InitExportPart /\ IdleChunkPart
NextNorm ==
    \/ NormalizeOnce /\ UNCHANGED <<sysVars, ragVars, exportVars, chunkVars>>
    \/ NormalizeAgain /\ UNCHANGED <<sysVars, ragVars, exportVars, chunkVars>>
SpecNorm == InitNorm /\ [][NextNorm]_vars

\* One chunk_text call
InitChunk == InitChunkPart /\ IdleSysPart
             /\ IdleRagPart /\ InitExportPart /\ IdleNormPart
NextChunk ==
    \/ ChunkStart /\ UNCHANGED <<sysVars, ragVars, exportVars, normVars>>
    \/ ChunkSentence /\ UNCHANGED <<sysVars, ragVars, exportVars, normVars>>
    \/ ChunkReturn /\ UNCHANGED <<sysVars, ragVars, exportVars, normVars>>
SpecChunk == InitChunk /\ [][NextChunk]_vars

(***************************************************************************)
(* Claim on send_update with failing subscribers (SpecJob).                *)
(***************************************************************************)
\* A finished send_update call on job j that started with several subscribers,
\* at least one of which failed on send
SendWithFailures(j) ==
    /\ iter[j].result \in {"returned", "raised"}
    /\ Cardinality(iter[j].initial) >= 2
    /\ iter[j].disconnected # {}

\* C14: when send_update runs with several subscribers of which some fail on
\* send, it does not raise, every subscriber whose send did not fail received
\* the message, and exactly the failing subscribers left the registry entry.
C14_SendUpdateTolerant ==
    \A j \in JobIds :
        SendWithFailures(j) =>
            /\ iter[j].result = "returned"
            /\ \A w \in iter[j].initial \ iter[j].disconnected :
                   Message(iter[j].at) \in delivered[w]
            /\ iter[j].after = iter[j].initial \ iter[j].disconnected

\* C25: whatever connect and disconnect calls for job j run while
\* send_update(j) is suspended on a send, the call ends without raising and
\* every subscriber registered from its start to its end got the message.
C25_RegistryChangeDuringSend ==
    \A j \in JobIds :
        iter[j].result \in {"returned", "raised"} =>
            /\ iter[j].result = "returned"
            /\ \A w \in iter[j].initial \cap iter[j].after :
                   Message(iter[j].at) \in delivered[w]

(***************************************************************************)
(* Claims on the Fetcher (SpecFetch).                                      *)
(***************************************************************************)
\* The events of a call's trace with one of the given names
Events(c, names) == SelectSeq(call[c].trace, LAMBDA e : e.ev \in names)
Secs(es) == [i \in 1..Len(es) |-> es[i].secs]
OutcomeEvents(c) == Events(c, {"response", "timeout", "request_error", "other"})
Gets(c) == Len(Events(c, {"get"}))
BackoffSleeps(c) == Secs(Events(c, {"sleep_backoff"}))

\* A finished static fetch
StaticFetchDone(c) ==
    call[c].op = "fetch" /\ method = "httpx" /\ call[c].pc = "done"

\* ... whose every attempt timed out
AllTimedOut(c) ==
    /\ StaticFetchDone(c)
    /\ OutcomeEvents(c) # <<>>
    /\ \A i \in 1..Len(OutcomeEvents(c)) : OutcomeEvents(c)[i].ev = "timeout"

\* C11 as stated: a static fetch whose every attempt times out issues exactly
\* 3 HTTP attempts, waits 1s, 2s and 4s between them and returns no page data.
C11_TimeoutBackoff124 ==
    \A c \in Calls :
        AllTimedOut(c) =>
            /\ Gets(c) = 3
            /\ BackoffSleeps(c) = <<1, 2, 4>>
            /\ call[c].result = "None"

\* C11 amended: a static fetch whose every attempt times out issues exactly 3
\* HTTP attempts, waits 1s and then 2s between them (two waits for three
\* attempts, strictly increasing) and returns no page data.
C11_TimeoutBackoff12 ==
    \A c \in Calls :
        AllTimedOut(c) =>
            /\ Gets(c) = 3
            /\ BackoffSleeps(c) = <<1, 2>>
            /\ call[c].result = "None"

C11_Witness ==
    \E c \in Calls : AllTimedOut(c) /\ Len(OutcomeEvents(c)) = 3

\* The status of the first response of a call, 0 when its first attempt raised
FirstStatus(c) ==
    IF OutcomeEvents(c) = <<>> THEN 0 ELSE OutcomeEvents(c)[1].status

\* Every attempt was answered with a status that is neither 200 nor one of
\* 404, 403, 401
AllOtherStatus(c) ==
    /\ OutcomeEvents(c) # <<>>
    /\ \A i \in 1..Len(OutcomeEvents(c)) :
          /\ OutcomeEvents(c)[i].ev = "response"
          /\ OutcomeEvents(c)[i].status \notin {200, 404, 403, 401}

\* C12: a static fetch whose first response is 404, 403 or 401 makes exactly
\* one HTTP attempt, sleeps no back-off and returns no page data; a fetch
\* answered only with other non-200 statuses uses the whole budget of 3.
C12_PermanentNoRetry ==
    \A c \in Calls :
        StaticFetchDone(c) =>
            /\ FirstStatus(c) \in {404, 403, 401} =>
                  /\ Gets(c) = 1
                  /\ BackoffSleeps(c) = <<>>
                  /\ call[c].result = "None"
            /\ AllOtherStatus(c) =>
                  /\ Gets(c) = 3
                  /\ call[c].result = "None"

C12_Witness ==
    \E c1, c2 \in Calls :
        /\ StaticFetchDone(c1) /\ FirstStatus(c1) = 403
        /\ StaticFetchDone(c2) /\ AllOtherStatus(c2)

\* The positions of a call's trace holding an event of the given name
At(c, name) == {i \in 1..Len(call[c].trace) : call[c].trace[i].ev = name}
\* The event right before position i of a call's trace ("" at the start)
Before(c, i) == IF i = 1 THEN "" ELSE call[c].trace[i - 1].ev
\* A finished fetch call on the static path, and one robots.txt refused
StaticFetchCall(c) == call[c].op = "fetch" /\ method = "httpx" /\ call[c].pc = "done"
RobotsRefused(c) == StaticFetchCall(c) /\ At(c, "get") = {}

\* C23: in the static fetch path every HTTP attempt of a fetch call, retries
\* included, comes right after a rate_limit_delay pause of its own, and every
\* fetch call pauses, also one that robots.txt refuses.
C23_RatePauseEveryAttempt ==
    \A c \in Calls :
        StaticFetchCall(c) =>
            /\ \A i \in At(c, "get") : Before(c, i) = "sleep_rate"
            /\ At(c, "sleep_rate") # {}

\* C23 as amended: a static fetch call that robots.txt does not refuse pauses
\* rate_limit_delay exactly once, right before its first HTTP attempt; each
\* retry comes right after its back-off pause instead, and a call that
\* robots.txt refuses returns without pausing.
C23_RatePauseOncePerCall ==
    \A c \in Calls :
        StaticFetchCall(c) =>
            /\ Cardinality(At(c, "sleep_rate")) = IF RobotsRefused(c) THEN 0 ELSE 1
            /\ \A i \in At(c, "sleep_rate") : call[c].trace[i].secs = RateLimitDelay
            /\ \A i \in At(c, "get") :
                  Before(c, i) = IF \A k \in At(c, "get") : i <= k
                                    THEN "sleep_rate" ELSE "sleep_backoff"

C23_Witness ==
    \E c, c2 \in Calls :
        /\ StaticFetchCall(c) /\ Cardinality(At(c, "get")) = DefaultRetryCount
        /\ RobotsRefused(c2) /\ call[c2].respect

\* The fetch calls of a fetch_multiple that hold its semaphore
InFlight == {c \in Calls : call[c].multi /\ call[c].pc \notin {"sem_wait", "done"}}
MultipleDone == \A c \in Calls : call[c].multi /\ call[c].pc = "done"
InputUrls == {call[c].url : c \in Calls}

\* C26: during fetch_multiple at most max_concurrent fetch calls are in
\* flight, and the map it returns has exactly one entry per distinct input
\* URL, holding the result of a fetch of that URL (the page, or None).
C26_BoundedFanOut ==
    /\ (\E c \in Calls : call[c].multi) => Cardinality(InFlight) <= sem.max
    /\ (MultipleDone /\ ~fetch_multiple.raised) =>
          /\ DOMAIN fetch_multiple.map = InputUrls
          /\ \A u \in InputUrls :
                /\ fetch_multiple.map[u] \in {"page", "None"}
                /\ \E c \in Calls :
                      call[c].url = u /\ call[c].result = fetch_multiple.map[u]

C26_Witness ==
    /\ MultipleDone /\ ~fetch_multiple.raised
    /\ sem.max = 1
    /\ Cardinality(InputUrls) = 1
    /\ call["c1"].result = "page" /\ call["c2"].result = "None"
    /\ fetch_multiple.map[call["c1"].url] = "None"

\* C13: at most one HTTP request for robots.txt is issued per domain,
\* whatever calls run on the fetcher and however they interleave.
C13_RobotsFetchedOnce ==
    \A d \in Domains : robots_gets[d] <= 1

(***************************************************************************)
(* Claims on answer_query (SpecRag).                                       *)
(***************************************************************************)
\* C15: when retrieval returns zero chunks, answer_query returns the fixed
\* apology text and an empty sources list, and the LLM client is never called.
C15_NoChunksNoLlm ==
    (rag.pc \notin {"none", "search", "raised"} /\ rag.n = 0) =>
        /\ rag.pc = "returned"
        /\ rag.result.answer = ApologyText
        /\ rag.result.sources = 0
        /\ rag.llm_calls = 0

C15_Witness ==
    rag.pc = "returned" /\ rag.n = 0 /\ rag.extract_structured

\* C16 as stated: every result of answer_query called with
\* extract_structured=true carries data_type, confidence, structured_data and
\* has_structured_data, whatever the retrieval and the LLM did.
C16_StructuredFieldsAlways ==
    (rag.pc = "returned" /\ rag.extract_structured) =>
        {"data_type", "confidence", "structured_data", "has_structured_data"}
            \subseteq rag.result.keys

\* C16 amended: every result of answer_query called with
\* extract_structured=true after a retrieval of at least one chunk carries the
\* four fields, whether the LLM calls succeeded or failed.
C16_StructuredFieldsWhenRetrieved ==
    (rag.pc = "returned" /\ rag.extract_structured /\ rag.n >= 1) =>
        {"data_type", "confidence", "structured_data", "has_structured_data"}
            \subseteq rag.result.keys

C16_Witness ==
    /\ rag.pc = "returned" /\ rag.extract_structured /\ rag.n >= 1
    /\ rag.llm_failed
    /\ ~rag.result.has_structured_data
    /\ rag.result.data_type = "menu"

(***************************************************************************)
(* Claim on POST /export/ (SpecExport).                                    *)
(***************************************************************************)
\* C17: a request whose format, compared case-insensitively, is none of json,
\* csv, markdown and md is answered with HTTP 400, never with a 5xx error and
\* never with a file.
C17_UnsupportedFormat400 ==
    \A i \in 1..Len(exports) :
        lower(exports[i].format) \notin {"json", "csv", "markdown", "md"} =>
            /\ exports[i].response.code = 400
            /\ ~exports[i].response.file

(***************************************************************************)
(* Claim on normalize_url (SpecNorm).                                      *)
(***************************************************************************)
\* C18: normalize_url is idempotent: normalizing a normalized URL changes
\* nothing.
C18_NormalizeIdempotent ==
    nu.pc = "twice" => nu.twice = nu.once

(***************************************************************************)
(* Claims on chunk_text (SpecChunk).                                       *)
(***************************************************************************)
\* The last n characters of s, the whole of s when it is not longer than n
LastChars(s, n) == IF Len(s) > n THEN From(s, Len(s) - n + 1) ELSE s

\* The length of the longest sentence of the document
LongestSentence ==
    LET lens == {Len(ck.sentences[i]) : i \in 1..Len(ck.sentences)}
    IN  IF lens = {} THEN 0 ELSE CHOOSE m \in lens : \A k \in lens : k <= m

\* C19: for consecutive chunks i, i+1 of one document the last chunk_overlap
\* characters of chunk i (all of it when it is shorter) are a prefix of
\* chunk i+1.
C19_OverlapIsPrefix ==
    \A i \in 1..(Len(ck.chunks) - 1) :
        IsPrefix(LastChars(ck.chunks[i], ck.chunk_overlap), ck.chunks[i + 1])

C19_Witness ==
    /\ ck.pc = "returned"
    /\ Len(ck.chunks) >= 2
    /\ Len(ck.chunks[1]) > ck.chunk_overlap
    /\ Len(ck.chunks[2]) > Len(ck.chunks[1])

\* C20: every chunk's text is at most chunk_size characters plus the length
\* of the longest sentence of the document.
C20_ChunkLengthBound ==
    \A i \in 1..Len(ck.chunks) :
        Len(ck.chunks[i]) <= ck.chunk_size + LongestSentence

(***************************************************************************)
(* Claims on update_job_status (SpecDb).                                   *)
(***************************************************************************)
\* Time of the first call of the history on job j whose status is in S,
\* NoTime when there is none.
FirstAt(j, S) ==
    LET idx == {i \in 1..Len(calls) : calls[i].job = j /\ calls[i].status \in S}
    IN  IF idx = {} THEN NoTime
        ELSE calls[CHOOSE i \in idx : \A k \in idx : i <= k].at

CallsWith(j, S) ==
    {i \in 1..Len(calls) : calls[i].job = j /\ calls[i].status \in S}

\* C2: after any sequence of update_job_status calls on a job, started_at is
\* the time of the first RUNNING call (unset while there was none); no later
\* call, RUNNING or not, changes it.
C2_StartedAtFirstRunning ==
    \A j \in 1..Len(jobs) : jobs[j].started_at = FirstAt(j, {RUNNING})

C2_Witness ==
    \E j \in 1..Len(jobs) :
        /\ Cardinality(CallsWith(j, {RUNNING})) >= 2
        /\ \E i \in CallsWith(j, TerminalStatus) : calls[i].at > FirstAt(j, {RUNNING})
        /\ jobs[j].started_at = FirstAt(j, {RUNNING})

\* C3: after any sequence of update_job_status calls on a job, completed_at is
\* the time of the first call with a terminal status; later terminal calls
\* leave it unchanged.
C3_CompletedAtFirstTerminal ==
    \A j \in 1..Len(jobs) : jobs[j].completed_at = FirstAt(j, TerminalStatus)


(***************************************************************************)
(* Claims on the crawler (SpecCrawl).                                      *)
(***************************************************************************)
HtmlPages == {Root, P1, P2, P3}
Range(q) == {q[i] : i \in 1..Len(q)}
Occurrences(q, u) == Cardinality({i \in 1..Len(q) : q[i].url = u})
FailCount(u) == Occurrences(failed, u)
HasSameDomainLink(u) == \E i \in 1..Len(site[u]) : is_same_domain(site[u][i], Root)

\* URLs a crawl can reach from the seed within the effective max_depth
Targets(u) ==
    {l \in Range(site[u]) : is_same_domain(l, Root)}
    \cup (IF u = pdf_page /\ scraper_method = "playwright" /\ pdf_enabled
            THEN Range(pdf_links) ELSE {})
RECURSIVE ReachWithin(_)
ReachWithin(d) ==
    IF d = 0 THEN {Root}
    ELSE LET prev == ReachWithin(d - 1)
         IN  prev \cup UNION {Targets(u) : u \in prev \cap HtmlPages}
Discoverable == ReachWithin(max_depth)
AllSucceeded == \A u \in visited : outcome_of[u] = "ok"

\* C6: a crawl constructed with max_depth=0 whose seed page was fetched and
\* contains same-domain links ends with exactly one page crawled and nothing
\* enqueued besides the seed.
C6_DepthZeroOnlySeed ==
    (cpc = "done" /\ arg_max_depth = 0 /\ outcome_of[Root] = "ok"
        /\ HasSameDomainLink(Root))
    => (pages_crawled = 1 /\ Len(enqueued) = 1)

\* C7: with constructor argument max_pages = N, pages_crawled never exceeds N;
\* and on a site with more than N discoverable pages, all fetches succeeding,
\* crawl() stops with pages_crawled = N and a non-empty queue.
C7_PageCap ==
    arg_max_pages # NoneInt =>
        /\ pages_crawled <= arg_max_pages
        /\ (cpc = "done" /\ AllSucceeded /\ Cardinality(Discoverable) > arg_max_pages)
              => (pages_crawled = arg_max_pages /\ queue # <<>>)

\* The page cap for arguments N >= 1, where `max_pages or 100` keeps N.
PageCapPositive ==
    arg_max_pages >= 1 =>
        /\ pages_crawled <= arg_max_pages
        /\ (cpc = "done" /\ AllSucceeded /\ Cardinality(Discoverable) > arg_max_pages)
              => (pages_crawled = arg_max_pages /\ queue # <<>>)

\* C8: no URL is fetched or downloaded twice within one crawl, a URL is in
\* visited before its fetch starts, and a URL popped while already visited is
\* not processed again.
C8_FetchedAtMostOnce ==
    /\ \A i, j \in 1..Len(fetched) : i # j => fetched[i] # fetched[j]
    /\ Range(fetched) \subseteq visited
    /\ cpc = "process" => (cur.url \in visited /\ cur.url \notin Range(fetched))

C8_Witness ==
    /\ cpc = "done"
    /\ \E u \in Range(fetched) : Occurrences(enqueued, u) >= 2

\* C9: the queue is FIFO (what was enqueued is what was dequeued followed by
\* what still waits, in the same order), depths along it never decrease, and
\* while a URL is processed nothing shallower waits in the queue.
C9_Fifo ==
    /\ enqueued = dequeued \o queue
    /\ \A i, j \in 1..Len(enqueued) :
          i < j => enqueued[i].depth <= enqueued[j].depth
    /\ cpc \in {"process", "callback"} =>
          \A i \in 1..Len(queue) : queue[i].depth >= cur.depth

C9_Witness ==
    /\ cpc = "done"
    /\ \E i \in 1..Len(dequeued) :
          /\ dequeued[i].depth = 2 /\ outcome_of[dequeued[i].url] = "ok"
    /\ Len(fetched) >= 4

\* C10: an exception while processing a URL or in the callback never leaves
\* crawl(): a processing exception leaves exactly one failure record for the
\* URL, a callback exception leaves none and the page is counted, and the loop
\* ends only on an empty queue or the page cap.
C10_ErrorsContained ==
    /\ cpc # "raised"
    /\ \A u \in SiteUrls : outcome_of[u] = "raise" => FailCount(u) = 1
    /\ \A u \in SiteUrls :
          cb_outcome[u] = "raise" => (FailCount(u) = 0 /\ outcome_of[u] = "ok")
    /\ pages_crawled = Cardinality({u \in SiteUrls : outcome_of[u] = "ok"})
    /\ cpc = "done" => (queue = <<>> \/ pages_crawled >= max_pages)

C10_Witness ==
    /\ cpc = "done"
    /\ \E i, j \in 1..Len(fetched) :
          /\ i < j
          /\ outcome_of[fetched[i]] = "raise"
          /\ cb_outcome[fetched[j]] = "raise"
    /\ \E i, j \in 1..Len(fetched) :
          /\ i < j
          /\ cb_outcome[fetched[i]] = "raise"
          /\ outcome_of[fetched[j]] = "ok"


\* C24: with PDF processing enabled, when a crawl ended without the page cap
\* stopping it, every same-domain PDF link the browser fetch reported on a
\* fetched page (of any depth up to max_depth) was processed as a PDF: its
\* download was started.
C24_BrowserPdfProcessed ==
    (/\ cpc = "done" /\ pages_crawled < max_pages
     /\ scraper_method = "playwright" /\ pdf_enabled
     /\ outcome_of[pdf_page] = "ok")
    => \A l \in Range(pdf_links) :
           is_same_domain(l, Root) =>
               /\ \E i \in 1..Len(enqueued) : enqueued[i].url = l
               /\ l \in Range(fetched)

\* C27 (SpecCrawlFair): crawl() terminates, and when it has, the queue is
\* empty or pages_crawled equals max_pages, and the returned urls_discovered
\* is the size of visited.
C27_CrawlTerminates ==
    <>(/\ cpc = "done"
       /\ (queue = <<>> \/ pages_crawled = max_pages)
       /\ CrawlResult.urls_discovered = Cardinality(visited))

C27_Witness ==
    /\ cpc = "done"
    /\ queue # <<>> /\ pages_crawled = max_pages
    /\ CrawlResult.urls_discovered >= 2
    /\ Len(failed) >= 1

\* Visited PDF URLs that _process_pdf skipped because PDF processing is off
SkippedPdfs == {u \in visited : _is_pdf_url(u) /\ ~pdf_enabled}

\* C28: at the end of every crawl pages_crawled + pages_failed equals
\* urls_discovered, and no URL has more than one failure record.
C28_VisitedAccounted ==
    cpc = "done" =>
        /\ CrawlResult.pages_crawled + CrawlResult.pages_failed
              = CrawlResult.urls_discovered
        /\ \A u \in SiteUrls : FailCount(u) <= 1

\* C28 as amended: the visited PDF URLs skipped because PDF processing is
\* disabled are counted in urls_discovered only; every other visited URL is
\* either crawled or has exactly one failure record.
C28_VisitedAccountedButSkippedPdfs ==
    cpc = "done" =>
        /\ CrawlResult.pages_crawled + CrawlResult.pages_failed
              + Cardinality(SkippedPdfs) = CrawlResult.urls_discovered
        /\ \A u \in SiteUrls : FailCount(u) <= 1
        /\ \A u \in visited \ SkippedPdfs :
              (outcome_of[u] = "ok") # (FailCount(u) = 1)

C28_Witness ==
    /\ cpc = "done"
    /\ SkippedPdfs # {}
    /\ \E u \in visited : outcome_of[u] = "none"
    /\ \E u \in visited : outcome_of[u] = "raise"
    /\ pages_crawled >= 2


(***************************************************************************)
(* Claims on the background tasks (SpecJob) and the handler (SpecApi).     *)
(***************************************************************************)
Rank(st) == IF st = PENDING THEN 0 ELSE IF st = RUNNING THEN 1 ELSE 2

\* C1: the statuses persisted for a job by its background task only move
\* forward along PENDING -> RUNNING -> terminal, and once a terminal status
\* was written no different status is written after it.
C1_StatusForward ==
    \A i, k \in 1..Len(calls) :
        (i < k /\ calls[i].job = calls[k].job) =>
            /\ Rank(calls[i].status) <= Rank(calls[k].status)
            /\ calls[i].status \in TerminalStatus => calls[k].status = calls[i].status

FailedNotice == Message("handler_broadcast")

\* C4: when an exception escaped a step of the direct-scrape task, the task
\* does not end by raising; once it has returned the job's status is FAILED,
\* its error_message is the exception text, and every subscriber that was
\* registered when the failure notice went out and is still connected has
\* received the completion message with status "failed".
C4_FailureRecorded ==
    \A j \in 1..Len(jobs) :
        (jobs[j].job_type = "direct" /\ task[j].exc # NoneStr) =>
            /\ task[j].pc # "raised"
            /\ task[j].pc = "returned" =>
                  /\ jobs[j].status = FAILED
                  /\ jobs[j].error_message = task[j].exc
                  /\ \A w \in iter[j].initial :
                        sock[w].state = "open" => FailedNotice \in delivered[w]

\* C5: every POST /scrape/direct whose url is not a valid URL, or whose
\* scraper_method is given and is neither httpx nor playwright, is answered
\* with a client error (4xx), creates no job row and schedules no task.
C5_InvalidRejected ==
    \A i \in 1..Len(responses) :
        LET r == responses[i] IN
        (~is_valid_url(r.url) \/ r.scraper_method \notin {NoneStr, "httpx", "playwright"})
            => /\ r.code \in 400..499
               /\ r.jobs_after = r.jobs_before
               /\ ~r.scheduled

(***************************************************************************)
(* Claims on process_direct_scrape (SpecScrape).                           *)
(***************************************************************************)
SuccessRows(j) ==
    {i \in 1..Len(scraped_urls) :
        scraped_urls[i].job_id = j /\ scraped_urls[i].status = "success"}

\* C21: once the indexing phase of the job has ended, every ScrapedURL row of
\* the job whose content was loaded, chunked and turned into vectors has
\* embedded = 1 and chunks_generated equal to its number of chunks.
C21_IndexedRowsMarked ==
    ix.pc \in {"returned", "left"} =>
        \A id \in ix.indexed :
            /\ scraped_urls[id].embedded = 1
            /\ scraped_urls[id].chunks_generated = ix.url_chunk_counts[id]

\* C22: every ScrapedURL row with a local_path refers to a record that exists
\* in the local content store, and so does the path on_page holds between
\* save_content and add_scraped_url.
C22_LocalPathStored ==
    /\ \A i \in 1..Len(scraped_urls) :
          scraped_urls[i].local_path # <<>> =>
              file_exists(store, scraped_urls[i].local_path)
    /\ on_page.pc \in {"add", "progress"} => file_exists(store, on_page.local_path)

\* Two pages of the job were saved and recorded, and the indexing has read
\* the rows
C22_Witness ==
    /\ Len(scraped_urls) >= 2
    /\ \A i \in 1..Len(scraped_urls) : scraped_urls[i].local_path # <<>>
    /\ Cardinality(store) >= 2
    /\ ix.pc = "left"

\* C29: the job's persisted urls_scraped never exceeds the number of its
\* ScrapedURL rows with status "success".
C29_UrlsScrapedBounded ==
    \A j \in 1..Len(jobs) : jobs[j].urls_scraped <= Cardinality(SuccessRows(j))

\* C30: an error of the indexing phase never becomes the task's exception:
\* the indexing returns to the task, which goes on to the COMPLETED update as
\* after an indexing without errors, and a task that returns without an
\* exception of its own has set the job COMPLETED and sent the message with
\* status "completed" to the job's open subscribers.
C30_IndexErrorsContained ==
    LET t == task[ScrapeJobId]
    IN  /\ t.exc \notin IndexErrors
        /\ ix.pc = "returned" => t.pc = "crawl"
        /\ (ix.pc = "left" /\ ix.errors # {}) =>
              /\ t.pc \in {"update_completed", "broadcast_completed", "returned",
                            "raised"} \cup HandlerPcs
              /\ t.pc \in HandlerPcs \cup {"raised"} => t.exc = "database error"
              /\ t.pc \in {"broadcast_completed"} => jobs[ScrapeJobId].status = COMPLETED
              /\ (t.pc = "returned" /\ t.exc = NoneStr) =>
                    /\ jobs[ScrapeJobId].status = COMPLETED
                    /\ \A w \in RegistryEntry(active_connections, ScrapeJobId) :
                          sock[w].state = "open" =>
                              Message("broadcast_completed") \in delivered[w]

\* The upsert raised after a page had failed to embed, and the task returned
\* with the job COMPLETED and the subscriber told so
C30_Witness ==
    /\ ix.pc = "left"
    /\ {"embed_batch", "upsert_vectors"} \subseteq ix.errors
    /\ task[ScrapeJobId] = [pc |-> "returned", exc |-> NoneStr]
    /\ jobs[ScrapeJobId].status = COMPLETED
    /\ Message("broadcast_completed") \in delivered["w1"]

====
